---- MODULE Spec2Model ----
(***************************************************************************)
(* QueueCTL: the Job state machine, the in-memory Queue with its Worker    *)
(* loops, and the two storage backends (JsonStorage, SqliteStorage) with   *)
(* the storage-backed worker loop of the CLI.                              *)
(*                                                                         *)
(* Time is an integer number of seconds; an absent optional field          *)
(* (undefined / NULL) is Undef for timestamps and NoError for last_error.  *)
(***************************************************************************)
EXTENDS Integers, Sequences, FiniteSets, TLC

\* ------------------------------------------------------------------ bounds
MaxTime == 2
MaxJobs == 2
MaxRetries == 1
MaxBase == 2
MaxAttempts == 2
MaxUpdates == 1

\* ------------------------------------------------------------------ values
Undef == 0 - 1
NoError == ""
NoJob == 0
JobIds == 1..MaxJobs
JobState == {"pending", "processing", "completed", "failed", "dead"}
Times == 0..MaxTime
Errors == {"boom"}

Edge(a, b) == <<a, b>>

\* ------------------------------------------------------------------ Job
RECURSIVE Pow(_, _)
Pow(b, n) == IF n = 0 THEN 1 ELSE b * Pow(b, n - 1)

create(id, max_retries, backoff_base, run_at, t) ==
  [id |-> id, state |-> "pending", attempts |-> 0, max_retries |-> max_retries,
   created_at |-> t, updated_at |-> t, run_at |-> run_at,
   next_attempt_at |-> Undef, backoff_base |-> backoff_base, last_error |-> NoError]

getBackoffDelaySeconds(job, attemptNumber) == Pow(job.backoff_base, attemptNumber)

\* markProcessing that counts the lease as an attempt.
markProcessing_countsAttempt(job, t) ==
  IF job.state \notin {"pending", "failed"}
  THEN [job |-> job, threw |-> TRUE]
  ELSE [job |-> [job EXCEPT !.state = "processing", !.updated_at = t, !.attempts = @ + 1],
        threw |-> FALSE]

\* Each transition returns the job after the call and whether the call threw.
markProcessing(job, t) ==
  IF job.state \notin {"pending", "failed"}
  THEN [job |-> job, threw |-> TRUE]
  ELSE [job |-> [job EXCEPT !.state = "processing", !.updated_at = t], threw |-> FALSE]

\* markCompleted that also zeroes attempts.
markCompleted_zeroAttempts(job, t) ==
  IF job.state # "processing"
  THEN [job |-> job, threw |-> TRUE]
  ELSE [job |-> [job EXCEPT !.state = "completed", !.updated_at = t, !.attempts = 0,
                            !.last_error = NoError, !.next_attempt_at = Undef],
        threw |-> FALSE]

markCompleted(job, t) ==
  IF job.state # "processing"
  THEN [job |-> job, threw |-> TRUE]
  ELSE [job |-> [job EXCEPT !.state = "completed", !.updated_at = t,
                            !.last_error = NoError, !.next_attempt_at = Undef],
        threw |-> FALSE]

\* markFailed with the dead test off by one (>= for >).
markFailed_deadAtMax(job, error, t) ==
  IF job.state # "processing"
  THEN [job |-> job, threw |-> TRUE]
  ELSE LET j1 == [job EXCEPT !.attempts = @ + 1, !.updated_at = t, !.last_error = error]
       IN IF j1.attempts >= j1.max_retries
          THEN [job |-> [j1 EXCEPT !.state = "dead", !.next_attempt_at = Undef],
                threw |-> FALSE]
          ELSE [job |-> [j1 EXCEPT !.state = "failed",
                                   !.next_attempt_at = t + Pow(j1.backoff_base, j1.attempts)],
                threw |-> FALSE]

markFailed(job, error, t) ==
  IF job.state # "processing"
  THEN [job |-> job, threw |-> TRUE]
  ELSE LET j1 == [job EXCEPT !.attempts = @ + 1, !.updated_at = t, !.last_error = error]
       IN IF j1.attempts > j1.max_retries
          THEN [job |-> [j1 EXCEPT !.state = "dead", !.next_attempt_at = Undef],
                threw |-> FALSE]
          ELSE [job |-> [j1 EXCEPT !.state = "failed",
                                   !.next_attempt_at = t + getBackoffDelaySeconds(j1, j1.attempts)],
                threw |-> FALSE]

\* isRetryable that still counts a job whose attempts equal max_retries.
isRetryable_atMax(job) ==
  job.attempts <= job.max_retries /\ job.state # "dead" /\ job.state # "completed"

isRetryable(job) ==
  job.attempts < job.max_retries /\ job.state # "dead" /\ job.state # "completed"

\* isDue that takes every pending job as due, whatever its run_at.
isDue_ignoresRunAt(job, at) ==
  IF job.state = "pending"
  THEN TRUE
  ELSE IF job.state = "failed" /\ isRetryable(job)
       THEN (job.next_attempt_at = Undef \/ job.next_attempt_at <= at)
       ELSE FALSE

isDue(job, at) ==
  IF job.state = "pending"
  THEN (job.run_at = Undef \/ job.run_at <= at)
  ELSE IF job.state = "failed" /\ isRetryable(job)
       THEN (job.next_attempt_at = Undef \/ job.next_attempt_at <= at)
       ELSE FALSE

\* resetForRetry without its state test.
resetForRetry_unguarded(job, keepAttempts, t) ==
  [job |-> [job EXCEPT !.attempts = IF keepAttempts THEN @ ELSE 0,
                       !.state = "pending", !.updated_at = t,
                       !.next_attempt_at = Undef, !.last_error = NoError],
   threw |-> FALSE]

resetForRetry(job, keepAttempts, t) ==
  IF job.state # "dead" /\ job.state # "failed"
  THEN [job |-> job, threw |-> TRUE]
  ELSE [job |-> [job EXCEPT !.attempts = IF keepAttempts THEN @ ELSE 0,
                            !.state = "pending", !.updated_at = t,
                            !.next_attempt_at = Undef, !.last_error = NoError],
        threw |-> FALSE]

\* ------------------------------------------------------------------ Queue
\* A Queue value q has the fields of the class: jobs (id -> Job), stateOf
\* (id -> state), byState (state -> set of ids), insertSeq, insertionOrder.
\* Every operation returns the queue after the call, the id it returned
\* (NoJob for null / void) and whether it threw.
Put(f, k, v) == [x \in (DOMAIN f) \cup {k} |-> IF x = k THEN v ELSE f[x]]

EmptyQueue ==
  [jobs |-> <<>>, stateOf |-> <<>>, byState |-> [s \in JobState |-> {}],
   insertSeq |-> 0, insertionOrder |-> <<>>]

\* moveState that adds the id to its new set and leaves it in the old one.
moveState_keepsOld(q, id, next) ==
  [q EXCEPT !.byState = [@ EXCEPT ![next] = @ \cup {id}],
            !.stateOf = Put(q.stateOf, id, next)]

moveState(q, id, next) ==
  LET cleared == IF id \in DOMAIN q.stateOf /\ q.stateOf[id] # next
                 THEN [q.byState EXCEPT ![q.stateOf[id]] = @ \ {id}]
                 ELSE q.byState
  IN [q EXCEPT !.byState = [cleared EXCEPT ![next] = @ \cup {id}],
               !.stateOf = Put(q.stateOf, id, next)]

requireJob(q, id) == id \in DOMAIN q.jobs

effectiveDueAt(job, t) ==
  IF job.state = "pending"
  THEN (IF job.run_at # Undef THEN job.run_at ELSE job.created_at)
  ELSE IF job.state = "failed" /\ isRetryable(job)
       THEN (IF job.next_attempt_at # Undef THEN job.next_attempt_at ELSE t)
       ELSE Undef

seqOf(q, id) == IF id \in DOMAIN q.insertionOrder THEN q.insertionOrder[id] ELSE 0

\* The ids dequeue's consider() keeps, and the one it ends up with.
considered(q, at, t) ==
  {id \in (q.byState["pending"] \cup q.byState["failed"]) :
     /\ id \in DOMAIN q.jobs
     /\ isDue(q.jobs[id], at)
     /\ effectiveDueAt(q.jobs[id], t) # Undef}

\* The comparison with the tie broken by the later insertion.
wins_lastInFirst(q, t, a, b) ==
  LET da == effectiveDueAt(q.jobs[a], t)
      db == effectiveDueAt(q.jobs[b], t)
  IN da < db \/ (da = db /\ seqOf(q, a) > seqOf(q, b))

wins(q, t, a, b) ==
  LET da == effectiveDueAt(q.jobs[a], t)
      db == effectiveDueAt(q.jobs[b], t)
  IN da < db \/ (da = db /\ seqOf(q, a) < seqOf(q, b))

selected(q, at, t) ==
  LET c == considered(q, at, t)
  IN IF c = {} THEN NoJob
     ELSE CHOOSE a \in c : \A b \in c \ {a} : wins(q, t, a, b)

\* enqueue without its test for an id the queue already holds.
enqueue_overwrites(q, job) ==
  IF job.state # "pending"
  THEN [q |-> q, ret |-> NoJob, threw |-> TRUE]
  ELSE [q |-> [q EXCEPT !.jobs = Put(q.jobs, job.id, job),
                        !.stateOf = Put(q.stateOf, job.id, job.state),
                        !.byState = [@ EXCEPT ![job.state] = @ \cup {job.id}],
                        !.insertSeq = @ + 1,
                        !.insertionOrder = Put(q.insertionOrder, job.id, q.insertSeq + 1)],
        ret |-> NoJob, threw |-> FALSE]

enqueue(q, job) ==
  IF job.id \in DOMAIN q.jobs \/ job.state # "pending"
  THEN [q |-> q, ret |-> NoJob, threw |-> TRUE]
  ELSE [q |-> [q EXCEPT !.jobs = Put(q.jobs, job.id, job),
                        !.stateOf = Put(q.stateOf, job.id, job.state),
                        !.byState = [@ EXCEPT ![job.state] = @ \cup {job.id}],
                        !.insertSeq = @ + 1,
                        !.insertionOrder = Put(q.insertionOrder, job.id, q.insertSeq + 1)],
        ret |-> NoJob, threw |-> FALSE]

\* dequeue that returns the selected job without marking it processing.
dequeue_unmarked(q, at, t) ==
  [q |-> q, ret |-> selected(q, at, t), threw |-> FALSE]

dequeue(q, at, t) ==
  LET id == selected(q, at, t)
  IN IF id = NoJob
     THEN [q |-> q, ret |-> NoJob, threw |-> FALSE]
     ELSE LET r == markProcessing(q.jobs[id], t)
          IN IF r.threw
             THEN [q |-> q, ret |-> NoJob, threw |-> TRUE]
             ELSE [q |-> moveState([q EXCEPT !.jobs[id] = r.job], id, "processing"),
                   ret |-> id, threw |-> FALSE]

updateJob(q, updated) ==
  IF ~requireJob(q, updated.id)
  THEN [q |-> q, ret |-> NoJob, threw |-> TRUE]
  ELSE LET prevState == q.stateOf[updated.id]
           q1 == [q EXCEPT !.jobs[updated.id] = updated]
       IN [q |-> IF prevState # updated.state
                 THEN [q1 EXCEPT !.byState = [[@ EXCEPT ![prevState] = @ \ {updated.id}]
                                                 EXCEPT ![updated.state] = @ \cup {updated.id}],
                                 !.stateOf[updated.id] = updated.state]
                 ELSE q1,
           ret |-> NoJob, threw |-> FALSE]

complete(q, jobId, t) ==
  IF ~requireJob(q, jobId) \/ q.stateOf[jobId] # "processing"
  THEN [q |-> q, ret |-> NoJob, threw |-> TRUE]
  ELSE LET r == markCompleted(q.jobs[jobId], t)
       IN IF r.threw
          THEN [q |-> q, ret |-> NoJob, threw |-> TRUE]
          ELSE [q |-> moveState([q EXCEPT !.jobs[jobId] = r.job], jobId, "completed"),
                ret |-> jobId, threw |-> FALSE]

\* fail that files every failed job under failed, a dead one included.
fail_alwaysFailedSet(q, jobId, error, t) ==
  IF ~requireJob(q, jobId) \/ q.stateOf[jobId] # "processing"
  THEN [q |-> q, ret |-> NoJob, threw |-> TRUE]
  ELSE LET r == markFailed(q.jobs[jobId], error, t)
       IN IF r.threw
          THEN [q |-> q, ret |-> NoJob, threw |-> TRUE]
          ELSE [q |-> moveState([q EXCEPT !.jobs[jobId] = r.job], jobId, "failed"),
                ret |-> jobId, threw |-> FALSE]

fail(q, jobId, error, t) ==
  IF ~requireJob(q, jobId) \/ q.stateOf[jobId] # "processing"
  THEN [q |-> q, ret |-> NoJob, threw |-> TRUE]
  ELSE LET r == markFailed(q.jobs[jobId], error, t)
       IN IF r.threw
          THEN [q |-> q, ret |-> NoJob, threw |-> TRUE]
          ELSE [q |-> moveState([q EXCEPT !.jobs[jobId] = r.job], jobId,
                                IF r.job.state = "dead" THEN "dead" ELSE "failed"),
                ret |-> jobId, threw |-> FALSE]

\* requeue that also zeroes the attempts.
requeue_resetsAttempts(q, jobId, t) ==
  IF ~requireJob(q, jobId) \/ q.jobs[jobId].state \notin {"failed", "processing", "pending"}
  THEN [q |-> q, ret |-> NoJob, threw |-> TRUE]
  ELSE [q |-> moveState([q EXCEPT !.jobs[jobId] =
                            [@ EXCEPT !.state = "pending", !.next_attempt_at = Undef,
                                      !.attempts = 0, !.updated_at = t]],
                        jobId, "pending"),
        ret |-> jobId, threw |-> FALSE]

\* requeue without the test of the job's state.
requeue_fromAnyState(q, jobId, t) ==
  IF ~requireJob(q, jobId)
  THEN [q |-> q, ret |-> NoJob, threw |-> TRUE]
  ELSE [q |-> moveState([q EXCEPT !.jobs[jobId] =
                            [@ EXCEPT !.state = "pending", !.next_attempt_at = Undef,
                                      !.updated_at = t]],
                        jobId, "pending"),
        ret |-> jobId, threw |-> FALSE]

\* Job has no markPending method, so requeue always takes its fallback branch:
\* three direct field writes, from processing as well as from failed or pending.
requeue(q, jobId, t) ==
  IF ~requireJob(q, jobId) \/ q.jobs[jobId].state \notin {"failed", "processing", "pending"}
  THEN [q |-> q, ret |-> NoJob, threw |-> TRUE]
  ELSE [q |-> moveState([q EXCEPT !.jobs[jobId] =
                            [@ EXCEPT !.state = "pending", !.next_attempt_at = Undef,
                                      !.updated_at = t]],
                        jobId, "pending"),
        ret |-> jobId, threw |-> FALSE]

\* list(state): the jobs of the per-state set that the jobs map holds.
queueList(q, state) == {q.jobs[id] : id \in q.byState[state] \cap DOMAIN q.jobs}

queueResetForRetry(q, jobId, keepAttempts, t) ==
  IF ~requireJob(q, jobId)
  THEN [q |-> q, ret |-> NoJob, threw |-> TRUE]
  ELSE LET r == resetForRetry(q.jobs[jobId], keepAttempts, t)
       IN IF r.threw
          THEN [q |-> q, ret |-> NoJob, threw |-> TRUE]
          ELSE [q |-> moveState([q EXCEPT !.jobs[jobId] = r.job], jobId, "pending"),
                ret |-> jobId, threw |-> FALSE]

\* ------------------------------------------------------------------ JobJSON
DEFAULT_MAX_RETRIES == 3
DEFAULT_BACKOFF_BASE == 2

\* The null a storage call returns when there is no job.
NullJob == create(NoJob, 0, 1, Undef, 0)

toJSON(job) ==
  [id |-> job.id, state |-> job.state, attempts |-> job.attempts,
   max_retries |-> job.max_retries, created_at |-> job.created_at,
   updated_at |-> job.updated_at, run_at |-> job.run_at,
   next_attempt_at |-> job.next_attempt_at, backoff_base |-> job.backoff_base,
   last_error |-> job.last_error]

\* toISO: undefined stays undefined; a string is parsed and rendered again,
\* which for an instant written by toISOString gives the same instant.
toISO(d) == IF d = Undef THEN Undef ELSE d

\* fromJSON that leaves last_error out of the hydrated job.
fromJSON_dropsLastError(json) ==
  [json EXCEPT !.created_at = toISO(@), !.updated_at = toISO(@), !.run_at = toISO(@),
               !.next_attempt_at = toISO(@), !.last_error = NoError,
               !.backoff_base = IF @ = Undef THEN DEFAULT_BACKOFF_BASE ELSE @]

fromJSON(json) ==
  [json EXCEPT !.created_at = toISO(@), !.updated_at = toISO(@), !.run_at = toISO(@),
               !.next_attempt_at = toISO(@),
               !.backoff_base = IF @ = Undef THEN DEFAULT_BACKOFF_BASE ELSE @]

\* Index of the first record with this id in a sequence of records, 0 if none
\* (Array.findIndex, which gives -1).
findIndex(recs, id) ==
  IF \E i \in 1..Len(recs) : recs[i].id = id
  THEN CHOOSE i \in 1..Len(recs) : recs[i].id = id /\ \A k \in 1..(i - 1) : recs[k].id # id
  ELSE 0

splice(recs, idx) == [i \in 1..(Len(recs) - 1) |-> IF i < idx THEN recs[i] ELSE recs[i + 1]]

\* ------------------------------------------------------------------ JsonStorage
\* The body of each operation, run inside withLock on the documents it read:
\* the documents it will write (wr names the files it writes), what it
\* returns and whether it threw.
jsonEffectiveDueAt(json) ==
  IF json.next_attempt_at # Undef THEN json.next_attempt_at
  ELSE IF json.run_at # Undef THEN json.run_at ELSE json.created_at

jsonEnqueue(docs, job) ==
  IF findIndex(docs.jobs, job.id) # 0
  THEN [jobs |-> docs.jobs, dlq |-> docs.dlq, wr |-> {}, ret |-> NullJob, threw |-> TRUE]
  ELSE [jobs |-> Append(docs.jobs, toJSON(job)), dlq |-> docs.dlq, wr |-> {"jobs"},
        ret |-> NullJob, threw |-> FALSE]

jsonUpdate(docs, job) ==
  LET idx == findIndex(docs.jobs, job.id)
  IN IF idx = 0
     THEN [jobs |-> docs.jobs, dlq |-> docs.dlq, wr |-> {}, ret |-> NullJob, threw |-> TRUE]
     ELSE [jobs |-> [docs.jobs EXCEPT ![idx] = toJSON(job)], dlq |-> docs.dlq,
           wr |-> {"jobs"}, ret |-> NullJob, threw |-> FALSE]

\* moveToDLQ that files the record it took out of the main collection
\* rather than the job it was given.
jsonMoveToDLQ_storedRecord(docs, job) ==
  LET idx == findIndex(docs.jobs, job.id)
  IN [jobs |-> IF idx # 0 THEN splice(docs.jobs, idx) ELSE docs.jobs,
      dlq |-> Append(docs.dlq, IF idx # 0 THEN docs.jobs[idx] ELSE toJSON(job)),
      wr |-> {"jobs", "dlq"}, ret |-> NullJob, threw |-> FALSE]

jsonMoveToDLQ(docs, job) ==
  LET idx == findIndex(docs.jobs, job.id)
  IN [jobs |-> IF idx # 0 THEN splice(docs.jobs, idx) ELSE docs.jobs,
      dlq |-> Append(docs.dlq, toJSON(job)),
      wr |-> {"jobs", "dlq"}, ret |-> NullJob, threw |-> FALSE]

\* candidates.sort is stable: among equal keys the earlier record of the
\* document comes first, so candidates[0] is the least (due, created_at, index).
jsonBefore(recs, a, b) ==
  LET da == jsonEffectiveDueAt(recs[a])
      db == jsonEffectiveDueAt(recs[b])
  IN \/ da < db
     \/ da = db /\ recs[a].created_at < recs[b].created_at
     \/ da = db /\ recs[a].created_at = recs[b].created_at /\ a < b

jsonCandidates(recs, at) == {i \in 1..Len(recs) : isDue(fromJSON(recs[i]), at)}

jsonLeaseNext(docs, at, t) ==
  LET cand == jsonCandidates(docs.jobs, at)
  IN IF cand = {}
     THEN [jobs |-> docs.jobs, dlq |-> docs.dlq, wr |-> {}, ret |-> NullJob, threw |-> FALSE]
     ELSE LET first == CHOOSE a \in cand : \A b \in cand \ {a} : jsonBefore(docs.jobs, a, b)
              idx == findIndex(docs.jobs, docs.jobs[first].id)
              leased == [docs.jobs[idx] EXCEPT !.state = "processing", !.updated_at = t]
          IN [jobs |-> [docs.jobs EXCEPT ![idx] = leased], dlq |-> docs.dlq,
              wr |-> {"jobs"}, ret |-> fromJSON(leased), threw |-> FALSE]

\* retryFromDLQ that revives the job with the attempts it had.
jsonRetryFromDLQ_keepAttempts(docs, id, t) ==
  LET idx == findIndex(docs.dlq, id)
  IN IF idx = 0
     THEN [jobs |-> docs.jobs, dlq |-> docs.dlq, wr |-> {}, ret |-> NullJob, threw |-> FALSE]
     ELSE LET r == resetForRetry(fromJSON(docs.dlq[idx]), TRUE, t)
              jdx == findIndex(docs.jobs, id)
          IN [jobs |-> IF jdx # 0 THEN [docs.jobs EXCEPT ![jdx] = toJSON(r.job)]
                       ELSE Append(docs.jobs, toJSON(r.job)),
              dlq |-> splice(docs.dlq, idx),
              wr |-> {"jobs", "dlq"}, ret |-> r.job, threw |-> r.threw]

jsonRetryFromDLQ(docs, id, t) ==
  LET idx == findIndex(docs.dlq, id)
  IN IF idx = 0
     THEN [jobs |-> docs.jobs, dlq |-> docs.dlq, wr |-> {}, ret |-> NullJob, threw |-> FALSE]
     ELSE LET r == resetForRetry(fromJSON(docs.dlq[idx]), FALSE, t)
              jdx == findIndex(docs.jobs, id)
          IN IF r.threw
             THEN [jobs |-> docs.jobs, dlq |-> docs.dlq, wr |-> {}, ret |-> NullJob,
                   threw |-> TRUE]
             ELSE [jobs |-> IF jdx # 0 THEN [docs.jobs EXCEPT ![jdx] = toJSON(r.job)]
                            ELSE Append(docs.jobs, toJSON(r.job)),
                   dlq |-> splice(docs.dlq, idx),
                   wr |-> {"jobs", "dlq"}, ret |-> r.job, threw |-> FALSE]

\* ------------------------------------------------------------------ SqliteStorage
\* db.jobs is the jobs table in rowid order, db.dlq the dlq table; each
\* operation is one statement or one transaction, so one atomic step.
sqliteEnqueue(db, job) ==
  IF findIndex(db.jobs, job.id) # 0
  THEN [jobs |-> db.jobs, dlq |-> db.dlq, ret |-> NullJob, threw |-> TRUE]
  ELSE [jobs |-> Append(db.jobs, toJSON(job)), dlq |-> db.dlq, ret |-> NullJob,
        threw |-> FALSE]

sqliteUpdate(db, job) ==
  LET idx == findIndex(db.jobs, job.id)
  IN [jobs |-> IF idx = 0 THEN db.jobs ELSE [db.jobs EXCEPT ![idx] = toJSON(job)],
      dlq |-> db.dlq, ret |-> NullJob, threw |-> FALSE]

sqliteMoveToDLQ(db, job, t) ==
  IF findIndex(db.dlq, job.id) # 0
  THEN [jobs |-> db.jobs, dlq |-> db.dlq, ret |-> NullJob, threw |-> TRUE]
  ELSE LET idx == findIndex(db.jobs, job.id)
       IN [jobs |-> IF idx # 0 THEN splice(db.jobs, idx) ELSE db.jobs,
           dlq |-> Append(db.dlq, [id |-> job.id, payload |-> toJSON(job), dead_at |-> t]),
           ret |-> NullJob, threw |-> FALSE]

\* The WHERE clause of selectStmt and of updateStmt (the same predicate).
sqliteDue(row, at) ==
  \/ row.state = "pending" /\ (row.run_at = Undef \/ row.run_at <= at)
  \/ row.state = "failed" /\ (row.next_attempt_at = Undef \/ row.next_attempt_at <= at)

sqliteOrderKey(row) ==
  <<IF row.next_attempt_at # Undef THEN row.next_attempt_at
    ELSE IF row.run_at # Undef THEN row.run_at ELSE row.created_at,
    row.created_at>>

\* Rows the ORDER BY ... LIMIT 1 may give: SQL leaves the order of rows with
\* equal sort keys open.
sqliteSelect(rows, at) ==
  {i \in 1..Len(rows) :
     /\ sqliteDue(rows[i], at)
     /\ \A k \in 1..Len(rows) :
          sqliteDue(rows[k], at) =>
            LET a == sqliteOrderKey(rows[i])
                b == sqliteOrderKey(rows[k])
            IN a[1] < b[1] \/ (a[1] = b[1] /\ a[2] <= b[2])}

\* One round of the transaction's loop for the selected row idx (0: no row).
\* The conditional UPDATE uses the same instant as the SELECT, so inside the
\* transaction it changes the selected row in the first round.
sqliteLeaseNext_noUpdate(db, idx, at) ==
  IF idx = 0
  THEN [jobs |-> db.jobs, dlq |-> db.dlq, ret |-> NullJob, threw |-> FALSE]
  ELSE [jobs |-> db.jobs, dlq |-> db.dlq,
        ret |-> fromJSON([db.jobs[idx] EXCEPT !.state = "processing", !.updated_at = at]),
        threw |-> FALSE]

\* A round whose UPDATE has no due predicate in its WHERE clause.
sqliteLeaseNext_unconditional(db, idx, at) ==
  IF idx = 0
  THEN [jobs |-> db.jobs, dlq |-> db.dlq, ret |-> NullJob, threw |-> FALSE]
  ELSE LET row == [db.jobs[idx] EXCEPT !.state = "processing", !.updated_at = at]
       IN [jobs |-> [db.jobs EXCEPT ![idx] = row], dlq |-> db.dlq,
           ret |-> fromJSON(row), threw |-> FALSE]

sqliteLeaseNext(db, idx, at) ==
  IF idx = 0
  THEN [jobs |-> db.jobs, dlq |-> db.dlq, ret |-> NullJob, threw |-> FALSE]
  ELSE IF sqliteDue(db.jobs[idx], at)
       THEN LET row == [db.jobs[idx] EXCEPT !.state = "processing", !.updated_at = at]
            IN [jobs |-> [db.jobs EXCEPT ![idx] = row], dlq |-> db.dlq,
                ret |-> fromJSON(row), threw |-> FALSE]
       ELSE [jobs |-> db.jobs, dlq |-> db.dlq, ret |-> NullJob, threw |-> FALSE]

\* for (let i = 0; i < 5; i++) { select; if (!sel) return null; update;
\* if (res.changes === 1) return row } return null, from round i on, where
\* picks[i] is the row the SELECT of round i gave (0: none).
LEASE_ROUNDS == 5

RECURSIVE sqliteLeaseTx(_, _, _, _)
sqliteLeaseTx(db, picks, at, i) ==
  IF i > LEASE_ROUNDS \/ picks[i] = 0
  THEN [jobs |-> db.jobs, dlq |-> db.dlq, ret |-> NullJob, threw |-> FALSE]
  ELSE LET r == sqliteLeaseNext(db, picks[i], at)
       IN IF r.ret # NullJob THEN r ELSE sqliteLeaseTx(r, picks, at, i + 1)

sqliteRetryFromDLQ(db, id, t) ==
  LET idx == findIndex(db.dlq, id)
  IN IF idx = 0
     THEN [jobs |-> db.jobs, dlq |-> db.dlq, ret |-> NullJob, threw |-> FALSE]
     ELSE LET r == resetForRetry(fromJSON(db.dlq[idx].payload), FALSE, t)
          IN IF r.threw \/ findIndex(db.jobs, id) # 0
             THEN [jobs |-> db.jobs, dlq |-> db.dlq, ret |-> NullJob, threw |-> TRUE]
             ELSE [jobs |-> Append(db.jobs, toJSON(r.job)), dlq |-> splice(db.dlq, idx),
                   ret |-> r.job, threw |-> FALSE]

\* listDLQ of JsonStorage: the DLQ document, entry by entry.
jsonListDLQ(dlq) == [i \in 1..Len(dlq) |-> fromJSON(dlq[i])]

\* The orders in which rows can come back: every arrangement the sort key
\* allows, SQL leaving the order of rows with equal keys open.
OrderBy(rows, before(_, _)) ==
  {perm \in [1..Len(rows) -> 1..Len(rows)] :
     /\ \A i, j \in 1..Len(rows) : i # j => perm[i] # perm[j]
     /\ \A i, j \in 1..Len(rows) : i < j => ~before(rows[perm[j]], rows[perm[i]])}

\* listDLQ with ORDER BY dead_at DESC.
sqliteListDLQ_descending(dlq) ==
  {[i \in 1..Len(dlq) |-> fromJSON(dlq[perm[i]].payload)] :
     perm \in OrderBy(dlq, LAMBDA a, b : a.dead_at > b.dead_at)}

\* SELECT payload FROM dlq ORDER BY dead_at ASC: the results it can give.
sqliteListDLQ(dlq) ==
  {[i \in 1..Len(dlq) |-> fromJSON(dlq[perm[i]].payload)] :
     perm \in OrderBy(dlq, LAMBDA a, b : a.dead_at < b.dead_at)}

\* ------------------------------------------------------------------ state
VARIABLES
  harness,        \* what is being run: "job", "queue", "worker", "store", "lease", "dlq", "sweep"
                  \* or "order"
  now,            \* the wall clock
  op,             \* the last call made: its name, job id, arguments, outcome
  jobObj,         \* a Job object driven directly through its own methods
  nFailed,        \* markFailed calls on jobObj that did not throw, before any reset
  nReset,         \* 1 once a resetForRetry call on jobObj did not throw
  jobs, stateOf, byState, insertSeq, insertionOrder,      \* the Queue's fields
  running, loops, inFlight, stopOnEmpty,                  \* the Worker's fields
  loopPc, loopJob,  \* each runLoop invocation: where it is, the job it holds
  stopping, stopWait, \* a stop() call in progress and the loops it still awaits
  hook,           \* the execution a loop has just finished: the onError calls it made
  deqSince,       \* per job: dequeue returns since the last complete/fail/requeue
  deqSinceU,      \* the same, also reset by updateJob
  touched,        \* jobs an administrative complete/fail/requeue/updateJob changed
  nUpdate,        \* number of updateJob calls made
  backend,        \* the IStorage implementation in use: "json", "sqlite" or "none"
  jobsFile,       \* jobs.json (the jobs table): the stored records, in order
  dlqFile,        \* dlq.json (the dlq table)
  lock,           \* queue.lock: the caller that created it, NoProc when absent
  pc,             \* each storage caller: where it is
  call,           \* the storage call it is making
  plan,           \* what that call read and decided, then what it returns
  held,           \* the Job object the caller's loop got from leaseNext
  nextId,         \* the next unused job id
  due0,           \* the records that were due when the concurrent leaseNext calls began
  sweep,          \* each caller's sweepDeadToDLQ: whether it runs, the jobs still to
                  \* move, the sweeps it has begun
  exists,         \* the documents of the JSON directory that exist as files
  execs           \* per job: dequeue returns since its attempts were last zero
                  \* (counted for the administered queue of the retry harness)

jobVars == <<jobObj, nFailed, nReset>>
queueVars == <<jobs, stateOf, byState, insertSeq, insertionOrder>>
workerVars == <<running, loops, inFlight, stopOnEmpty, loopPc, loopJob, stopping, stopWait>>
ghostVars == <<deqSince, deqSinceU, touched, nUpdate>>
storeVars == <<backend, jobsFile, dlqFile, lock, pc, call, plan, held, nextId, due0, sweep, exists>>
vars == <<harness, now, op, jobVars, queueVars, workerVars, hook, ghostVars, storeVars, execs>>

MaxLoops == 2
Concurrency == 2
LoopIds == 1..MaxLoops
InWorker == harness \in {"worker", "restart"}
\* this.concurrency of the Worker under test: one loop per start() in the
\* restart harness, so that a second start() finds a free loop slot.
WorkerConcurrency == IF harness = "restart" THEN 1 ELSE Concurrency
MaxProcs == 2
Procs == 1..MaxProcs
NoProc == 0
RunAts == {Undef, 1}

Call(name, id, threw, ret, keep) ==
  [name |-> name, id |-> id, threw |-> threw, ret |-> ret, keep |-> keep]

Q == [jobs |-> jobs, stateOf |-> stateOf, byState |-> byState,
      insertSeq |-> insertSeq, insertionOrder |-> insertionOrder]

SetQueue(q) ==
  /\ jobs' = q.jobs
  /\ stateOf' = q.stateOf
  /\ byState' = q.byState
  /\ insertSeq' = q.insertSeq
  /\ insertionOrder' = q.insertionOrder

\* What a storage call gives back, and a call that is not being made.
Outcome(ret, threw) ==
  [jobs |-> <<>>, dlq |-> <<>>, wr |-> {}, ret |-> ret, threw |-> threw]

NoPlan == Outcome(NullJob, FALSE)
NoCall == [name |-> "none", job |-> NullJob, id |-> NoJob, at |-> 0]
NoSweep == [active |-> FALSE, todo |-> <<>>, runs |-> 0]
NoHook == [loop |-> 0, exec |-> "none", job |-> NoJob, calls |-> <<>>]

Files == {"jobs", "dlq"}

\* init() leaves two empty documents (two empty tables); no caller has begun.
InitCallers ==
  /\ jobsFile = <<>>
  /\ dlqFile = <<>>
  /\ lock = NoProc
  /\ pc = [p \in Procs |-> "idle"]
  /\ call = [p \in Procs |-> NoCall]
  /\ plan = [p \in Procs |-> NoPlan]
  /\ held = [p \in Procs |-> NullJob]
  /\ nextId = 1
  /\ due0 = {}
  /\ sweep = [p \in Procs |-> NoSweep]
  /\ exists = Files

InitCommon ==
  /\ now = 0
  /\ op = Call("init", NoJob, FALSE, NoJob, FALSE)
  /\ nFailed = 0
  /\ nReset = 0
  /\ jobs = EmptyQueue.jobs
  /\ stateOf = EmptyQueue.stateOf
  /\ byState = EmptyQueue.byState
  /\ insertSeq = EmptyQueue.insertSeq
  /\ insertionOrder = EmptyQueue.insertionOrder
  /\ running = FALSE
  /\ loops = {}
  /\ inFlight = 0
  /\ stopOnEmpty = FALSE
  /\ loopPc = [l \in LoopIds |-> "none"]
  /\ loopJob = [l \in LoopIds |-> NoJob]
  /\ stopping = FALSE
  /\ stopWait = {}
  /\ hook = NoHook
  /\ deqSince = [i \in JobIds |-> 0]
  /\ deqSinceU = [i \in JobIds |-> 0]
  /\ touched = {}
  /\ nUpdate = 0
  /\ execs = [i \in JobIds |-> 0]

Tick ==
  /\ now < MaxTime
  /\ now' = now + 1
  /\ op' = Call("tick", NoJob, FALSE, NoJob, FALSE)
  /\ hook' = NoHook
  /\ UNCHANGED <<harness, jobVars, queueVars, workerVars, ghostVars, storeVars, execs>>

\* ------------------------------------------------------------------ a Job on its own
InitJob ==
  /\ harness = "job"
  /\ backend = "none"
  /\ InitCallers
  /\ InitCommon
  /\ \E m \in 0..MaxRetries, b \in 1..MaxBase, ra \in RunAts :
       jobObj = create(1, m, b, ra, 0)

JobFrame == UNCHANGED <<harness, now, queueVars, workerVars, hook, ghostVars, storeVars, execs>>

JobMarkProcessing ==
  /\ harness = "job"
  /\ LET r == markProcessing(jobObj, now)
     IN /\ jobObj' = r.job
        /\ op' = Call("markProcessing", jobObj.id, r.threw, NoJob, FALSE)
  /\ UNCHANGED <<nFailed, nReset>>
  /\ JobFrame

JobMarkCompleted ==
  /\ harness = "job"
  /\ LET r == markCompleted(jobObj, now)
     IN /\ jobObj' = r.job
        /\ op' = Call("markCompleted", jobObj.id, r.threw, NoJob, FALSE)
  /\ UNCHANGED <<nFailed, nReset>>
  /\ JobFrame

JobMarkFailed ==
  /\ harness = "job"
  /\ jobObj.attempts < MaxAttempts
  /\ \E e \in Errors :
       LET r == markFailed(jobObj, e, now)
       IN /\ jobObj' = r.job
          /\ nFailed' = IF r.threw \/ nReset > 0 THEN nFailed ELSE nFailed + 1
          /\ op' = Call("markFailed", jobObj.id, r.threw, NoJob, FALSE)
  /\ UNCHANGED nReset
  /\ JobFrame

JobResetForRetry ==
  /\ harness = "job"
  /\ \E keep \in BOOLEAN :
       LET r == resetForRetry(jobObj, keep, now)
       IN /\ jobObj' = r.job
          /\ nReset' = IF r.threw \/ nReset = 1 THEN nReset ELSE nReset + 1
          /\ op' = Call("resetForRetry", jobObj.id, r.threw, NoJob, keep)
  /\ UNCHANGED nFailed
  /\ JobFrame

NextJob ==
  \/ JobMarkProcessing
  \/ JobMarkCompleted
  \/ JobMarkFailed
  \/ JobResetForRetry
  \/ Tick

SpecJob == InitJob /\ [][NextJob]_vars

\* ------------------------------------------------------------------ Queue calls
InitQueue ==
  /\ harness = "queue"
  /\ backend = "none"
  /\ InitCallers
  /\ InitCommon
  /\ jobObj = NullJob

CountFrame == UNCHANGED <<harness, now, jobVars, storeVars>>
QueueFrame == CountFrame /\ UNCHANGED execs
InQueueAlone == harness \in {"queue", "retry"}

Bump(f, id) == IF id \in DOMAIN f THEN [f EXCEPT ![id] = IF @ < 2 THEN @ + 1 ELSE @] ELSE f
Zero(f, id) == IF id \in DOMAIN f THEN [f EXCEPT ![id] = 0] ELSE f
Counted(f, id) ==
  IF id \in DOMAIN f THEN [f EXCEPT ![id] = IF @ < MaxRetries + 2 THEN @ + 1 ELSE @] ELSE f

\* Job.create gives every job a fresh random id: the next unused one here.
Enqueue ==
  /\ harness \in {"queue", "worker", "restart", "retry"}
  /\ hook' = NoHook
  /\ insertSeq < MaxJobs
  /\ \E m \in {MaxRetries}, b \in {MaxBase},
        ra \in (IF harness = "queue" THEN RunAts ELSE {Undef}) :
       LET r == enqueue(Q, create(insertSeq + 1, m, b, ra, now))
       IN /\ SetQueue(r.q)
          /\ UNCHANGED op
  /\ UNCHANGED <<workerVars, ghostVars>>
  /\ QueueFrame

\* enqueue of a Job object that is already in the queue, whatever its state.
EnqueueAgain ==
  /\ harness = "queue"
  /\ hook' = NoHook
  /\ \E id \in DOMAIN jobs :
       LET r == enqueue(Q, jobs[id])
       IN /\ SetQueue(r.q)
          /\ UNCHANGED op
  /\ UNCHANGED <<workerVars, ghostVars>>
  /\ QueueFrame

Dequeue ==
  /\ InQueueAlone
  /\ hook' = NoHook
  /\ \E at \in Times :
       LET r == dequeue(Q, at, now)
       IN /\ SetQueue(r.q)
          /\ UNCHANGED op
          /\ deqSince' = Bump(deqSince, r.ret)
          /\ deqSinceU' = Bump(deqSinceU, r.ret)
          /\ execs' = IF harness = "retry" THEN Counted(execs, r.ret) ELSE execs
  /\ UNCHANGED <<workerVars, touched, nUpdate>>
  /\ CountFrame

Finished(r, id) ==
  /\ deqSince' = IF r.threw THEN deqSince ELSE Zero(deqSince, id)
  /\ deqSinceU' = IF r.threw THEN deqSinceU ELSE Zero(deqSinceU, id)
  /\ touched' = IF r.threw THEN touched ELSE touched \cup {id}
  /\ UNCHANGED nUpdate

Complete ==
  /\ InQueueAlone
  /\ hook' = NoHook
  /\ \E id \in JobIds :
       LET r == complete(Q, id, now)
       IN /\ SetQueue(r.q)
          /\ UNCHANGED op
          /\ Finished(r, id)
  /\ UNCHANGED workerVars
  /\ QueueFrame

Fail ==
  /\ InQueueAlone
  /\ hook' = NoHook
  /\ \E id \in JobIds, e \in Errors :
       /\ id \in DOMAIN jobs => jobs[id].attempts < MaxAttempts
       /\ LET r == fail(Q, id, e, now)
          IN /\ SetQueue(r.q)
             /\ UNCHANGED op
             /\ Finished(r, id)
  /\ UNCHANGED workerVars
  /\ QueueFrame

Requeue ==
  /\ harness \in {"queue", "worker", "retry"}
  /\ hook' = NoHook
  /\ \E id \in JobIds :
       LET r == requeue(Q, id, now)
       IN /\ SetQueue(r.q)
          /\ UNCHANGED op
          /\ Finished(r, id)
  /\ UNCHANGED workerVars
  /\ QueueFrame

ResetForRetry ==
  /\ InQueueAlone
  /\ hook' = NoHook
  /\ \E id \in JobIds, keep \in (IF harness = "retry" THEN {FALSE} ELSE BOOLEAN) :
       LET r == queueResetForRetry(Q, id, keep, now)
       IN /\ SetQueue(r.q)
          /\ UNCHANGED op
          /\ execs' = IF r.threw \/ keep THEN execs ELSE Zero(execs, id)
  /\ UNCHANGED <<workerVars, ghostVars>>
  /\ CountFrame

\* updateJob with a copy of the stored job in which the caller set the state
\* (Job.fromJSON({...job.toJSON(), state})), or with a job the queue never saw.
UpdateJob ==
  /\ harness = "queue"
  /\ hook' = NoHook
  /\ nUpdate < MaxUpdates
  /\ nUpdate' = nUpdate + 1
  /\ \E id \in JobIds, st \in JobState :
       LET updated == IF id \in DOMAIN jobs
                      THEN fromJSON([toJSON(jobs[id]) EXCEPT !.state = st])
                      ELSE create(id, 0, 1, Undef, now)
           r == updateJob(Q, updated)
       IN /\ SetQueue(r.q)
          /\ UNCHANGED op
          /\ deqSinceU' = IF r.threw THEN deqSinceU ELSE Zero(deqSinceU, id)
          /\ touched' = IF r.threw THEN touched ELSE touched \cup {id}
  /\ UNCHANGED <<workerVars, deqSince>>
  /\ QueueFrame

\* ------------------------------------------------------------------ Worker
The(S) == CHOOSE x \in S : TRUE

Least(S) == CHOOSE x \in S : \A y \in S : x <= y

RECURSIVE FirstN(_, _)
FirstN(S, n) == IF n = 0 \/ S = {} THEN {} ELSE {Least(S)} \cup FirstN(S \ {Least(S)}, n - 1)

\* One pass of runLoop from the while test to its next await (or its exit):
\* the queue afterwards, where the loop then is, and the job it leased.
loopTop(q, run, t) ==
  IF ~run
  THEN [q |-> q, pc |-> "none", job |-> NoJob]
  ELSE LET d == dequeue(q, t, t)
       IN IF d.ret = NoJob
          THEN [q |-> q, pc |-> IF stopOnEmpty THEN "none" ELSE "sleeping", job |-> NoJob]
          ELSE [q |-> d.q, pc |-> "executing", job |-> d.ret]

\* start() calls runLoop(i) for each slot in turn; each runs up to its first await.
RECURSIVE startLoops(_, _, _)
startLoops(q, ids, t) ==
  IF ids = {}
  THEN [q |-> q, pc |-> <<>>, job |-> <<>>]
  ELSE LET l == Least(ids)
       IN The(UNION {{[q |-> rest.q, pc |-> Put(rest.pc, l, top.pc),
                       job |-> Put(rest.job, l, top.job)] :
                        rest \in {startLoops(top.q, ids \ {l}, t)}} :
                     top \in {loopTop(q, TRUE, t)}})

RECURSIVE BumpAll(_, _)
BumpAll(f, ids) ==
  IF ids = {} THEN f ELSE BumpAll(Bump(f, Least(ids)), ids \ {Least(ids)})

Start ==
  /\ InWorker
  /\ hook' = NoHook
  /\ ~running
  /\ \E new \in {FirstN({l \in LoopIds : loopPc[l] = "none"}, WorkerConcurrency)} :
     \E r \in {startLoops(Q, new, now)} :
     \E got \in {{r.job[l] : l \in new} \ {NoJob}} :
        /\ Cardinality(new) >= WorkerConcurrency
        /\ running' = TRUE
        /\ SetQueue(r.q)
        /\ loopPc' = [l \in LoopIds |-> IF l \in new THEN r.pc[l] ELSE loopPc[l]]
        /\ loopJob' = [l \in LoopIds |-> IF l \in new THEN r.job[l] ELSE loopJob[l]]
        /\ loops' = {l \in new : r.pc[l] # "none"}
        /\ inFlight' = inFlight + Cardinality({l \in new : r.pc[l] = "executing"})
        /\ deqSince' = BumpAll(deqSince, got)
        /\ deqSinceU' = BumpAll(deqSinceU, got)
  /\ UNCHANGED op
  /\ UNCHANGED <<stopOnEmpty, stopping, stopWait, touched, nUpdate>>
  /\ QueueFrame

\* stop() up to its await: the flag is cleared and the current loops awaited.
StopCall ==
  /\ InWorker
  /\ hook' = NoHook
  /\ running
  /\ ~stopping
  /\ running' = FALSE
  /\ stopping' = TRUE
  /\ stopWait' = loops
  /\ UNCHANGED op
  /\ UNCHANGED <<loops, inFlight, stopOnEmpty, loopPc, loopJob, queueVars, ghostVars>>
  /\ QueueFrame

\* stop() after its await: every awaited loop has returned.
StopResolve ==
  /\ InWorker
  /\ hook' = NoHook
  /\ stopping
  /\ stopWait = {}
  /\ loops' = {}
  /\ stopping' = FALSE
  /\ UNCHANGED op
  /\ UNCHANGED <<running, inFlight, stopOnEmpty, loopPc, loopJob, stopWait, queueVars, ghostVars>>
  /\ QueueFrame

\* The loop l goes on from the queue q (after its finalize, if any) with the
\* dequeue counters g and gU.
Continue(l, q, g, gU, flying) ==
  \E top \in {loopTop(q, running, now)} :
     /\ SetQueue(top.q)
     /\ loopPc' = [loopPc EXCEPT ![l] = top.pc]
     /\ loopJob' = [loopJob EXCEPT ![l] = top.job]
     /\ loops' = IF top.pc = "none" THEN loops \ {l} ELSE loops
     /\ stopWait' = IF top.pc = "none" THEN stopWait \ {l} ELSE stopWait
     /\ inFlight' = flying + (IF top.pc = "executing" THEN 1 ELSE 0)
     /\ deqSince' = Bump(g, top.job)
     /\ deqSinceU' = Bump(gU, top.job)
     /\ UNCHANGED <<running, stopOnEmpty, stopping, touched, nUpdate>>
     /\ QueueFrame

\* The poll sleep ends.
WakeUp(l) ==
  /\ InWorker
  /\ hook' = NoHook
  /\ loopPc[l] = "sleeping"
  /\ UNCHANGED op
  /\ Continue(l, Q, deqSince, deqSinceU, inFlight)

\* The Error that complete / fail throw for this job.
completeError(q, id) ==
  IF requireJob(q, id) THEN "complete() requires 'processing' state" ELSE "Job not found"

failError(q, id) ==
  IF requireJob(q, id) THEN "fail() requires 'processing' state" ELSE "Job not found"

\* The catch block that passes only the caught error to the hook.
onCatch_dropsInner(q, id, err, t) ==
  The({[q |-> IF f.threw THEN q ELSE f.q, calls |-> <<err>>, done |-> ~f.threw] :
         f \in {fail(q, id, err, t)}})

\* The catch block with a fail that does not test the job's state.
onCatch_failUnguarded(q, id, err, t) ==
  The({[q |-> IF f.threw THEN q ELSE f.q,
        calls |-> IF f.threw THEN <<failError(q, id), err>> ELSE <<err>>,
        done |-> ~f.threw] :
         f \in {IF ~requireJob(q, id) THEN fail(q, id, err, t)
                ELSE fail(moveState([q EXCEPT !.jobs[id].state = "processing"],
                                    id, "processing"), id, err, t)}})

\* catch (err) { try { queue.fail(job.id, err) } catch (inner) { onError(inner, job) }
\* onError(err, job) }: the queue afterwards, the errors handed to the hook in
\* order, and whether fail finalized the job.
onCatch(q, id, err, t) ==
  The({[q |-> IF f.threw THEN q ELSE f.q,
        calls |-> IF f.threw THEN <<failError(q, id), err>> ELSE <<err>>,
        done |-> ~f.threw] :
         f \in {fail(q, id, err, t)}})

\* executor.execute(job) resolved: complete; if complete throws, the catch
\* block runs with that error.
ExecReturn(l) ==
  /\ InWorker
  /\ loopPc[l] = "executing"
  /\ \E id \in {loopJob[l]} :
     \E c \in {complete(Q, id, now)} :
     \E k \in {IF c.threw THEN onCatch(Q, id, completeError(Q, id), now)
                ELSE [q |-> c.q, calls |-> <<>>, done |-> TRUE]} :
          /\ (c.threw /\ id \in DOMAIN jobs) => jobs[id].attempts < MaxAttempts
          /\ UNCHANGED op
          /\ hook' = [loop |-> l, exec |-> "returned", job |-> id, calls |-> k.calls]
          /\ Continue(l, k.q, IF k.done THEN Zero(deqSince, id) ELSE deqSince,
                      IF k.done THEN Zero(deqSinceU, id) ELSE deqSinceU, inFlight - 1)

\* executor.execute(job) threw: the catch block runs with the execution error.
ExecThrow(l) ==
  /\ InWorker
  /\ loopPc[l] = "executing"
  /\ \E e \in Errors, id \in {loopJob[l]} :
     \E k \in {onCatch(Q, id, e, now)} :
          /\ id \in DOMAIN jobs => jobs[id].attempts < MaxAttempts
          /\ UNCHANGED op
          /\ hook' = [loop |-> l, exec |-> "threw", job |-> id, calls |-> k.calls]
          /\ Continue(l, k.q, IF k.done THEN Zero(deqSince, id) ELSE deqSince,
                      IF k.done THEN Zero(deqSinceU, id) ELSE deqSinceU, inFlight - 1)

NextQueue ==
  \/ Enqueue
  \/ EnqueueAgain
  \/ Dequeue
  \/ Complete
  \/ Fail
  \/ Requeue
  \/ ResetForRetry
  \/ UpdateJob
  \/ Tick

SpecQueue == InitQueue /\ [][NextQueue]_vars

\* A Queue whose jobs are dequeued, finished, requeued and reset (attempts
\* zeroed) by its caller: no updateJob, no resetForRetry that keeps attempts.
InitRetry ==
  /\ harness = "retry"
  /\ backend = "none"
  /\ InitCallers
  /\ InitCommon
  /\ jobObj = NullJob

NextRetry ==
  \/ Enqueue
  \/ Dequeue
  \/ Complete
  \/ Fail
  \/ Requeue
  \/ ResetForRetry
  \/ Tick

SpecRetry == InitRetry /\ [][NextRetry]_vars

\* A Worker over a Queue: jobs are enqueued, the loops run, and an
\* administrator may requeue a job at any time.
InitWorker ==
  /\ harness = "worker"
  /\ backend = "none"
  /\ InitCallers
  /\ InitCommon
  /\ jobObj = NullJob

NextWorker ==
  \/ Enqueue
  \/ Requeue
  \/ Start
  \/ StopCall
  \/ StopResolve
  \/ \E l \in LoopIds : WakeUp(l)
  \/ \E l \in LoopIds : ExecReturn(l)
  \/ \E l \in LoopIds : ExecThrow(l)
  \/ Tick

SpecWorker == InitWorker /\ [][NextWorker]_vars

\* A Worker of concurrency 1 whose owner calls start() and stop() in any
\* order, start() also while a stop() is still awaiting its loops.
InitRestart ==
  /\ harness = "restart"
  /\ backend = "none"
  /\ InitCallers
  /\ InitCommon
  /\ jobObj = NullJob

NextRestart ==
  \/ Enqueue
  \/ Start
  \/ StopCall
  \/ StopResolve
  \/ \E l \in LoopIds : WakeUp(l)
  \/ \E l \in LoopIds : ExecReturn(l)
  \/ \E l \in LoopIds : ExecThrow(l)
  \/ Tick

SpecRestart == InitRestart /\ [][NextRestart]_vars

\* ------------------------------------------------------------------ in-process liveness
\* The Worker with no administrative call: jobs are enqueued, start() is
\* called, every sleep ends, every execution returns or throws, time advances.
\* A throw is taken only when the retry it schedules falls within the clock's
\* range, so that a job is never kept waiting by the clock's bound.
ExecThrowLive(l) ==
  /\ loopPc[l] = "executing"
  /\ LET j == jobs[loopJob[l]]
     IN j.attempts + 1 <= j.max_retries =>
          now + getBackoffDelaySeconds(j, j.attempts + 1) <= MaxTime
  /\ ExecThrow(l)

NextLive ==
  \/ Enqueue
  \/ Start
  \/ \E l \in LoopIds : WakeUp(l)
  \/ \E l \in LoopIds : ExecReturn(l)
  \/ \E l \in LoopIds : ExecThrowLive(l)
  \/ Tick

FairLive ==
  /\ WF_vars(Start)
  /\ WF_vars(Tick)
  /\ \A l \in LoopIds : WF_vars(WakeUp(l))
  /\ \A l \in LoopIds : WF_vars(ExecReturn(l) \/ ExecThrowLive(l))

SpecLive == InitWorker /\ [][NextLive]_vars /\ FairLive

\* ------------------------------------------------------------------ combined
InitMem == InitQueue \/ InitWorker
NextMem == NextQueue \/ NextWorker
SpecMem == InitMem /\ [][NextMem]_vars

\* ------------------------------------------------------------------ storage callers
\* Callers of one store: the loops of `worker start` (lease, execute, write
\* back) and the commands that enqueue and revive, in one process or several.
Docs == [jobs |-> jobsFile, dlq |-> dlqFile]

FileFrame == UNCHANGED <<harness, now, op, jobVars, queueVars, workerVars, hook, ghostVars, execs>>
StoreFrame == FileFrame /\ UNCHANGED exists

MakeCall(name, job, id, at) == [name |-> name, job |-> job, id |-> id, at |-> at]

\* openSync with O_CREAT | O_EXCL: an open that fails with EEXIST
\* whenever the lock file exists.
openShared(lk, p) == [ok |-> TRUE, lock |-> p]

openExclusive(lk, p) ==
  IF lk = NoProc THEN [ok |-> TRUE, lock |-> p] ELSE [ok |-> FALSE, lock |-> lk]

\* The function a JsonStorage method hands to withLock, on the documents read.
jsonBody(c, docs, t) ==
  CASE c.name = "enqueue" -> jsonEnqueue(docs, c.job)
    [] c.name = "update" -> jsonUpdate(docs, c.job)
    [] c.name = "moveToDLQ" -> jsonMoveToDLQ(docs, c.job)
    [] c.name = "leaseNext" -> jsonLeaseNext(docs, c.at, t)
    [] c.name = "retryFromDLQ" -> jsonRetryFromDLQ(docs, c.id, t)

\* The outcomes a SqliteStorage method can have on the tables db.
sqliteResults(c, db, t) ==
  CASE c.name = "enqueue" -> {sqliteEnqueue(db, c.job)}
    [] c.name = "update" -> {sqliteUpdate(db, c.job)}
    [] c.name = "moveToDLQ" -> {sqliteMoveToDLQ(db, c.job, t)}
    [] c.name = "leaseNext" ->
         {sqliteLeaseNext(db, i, c.at) :
            i \in IF sqliteSelect(db.jobs, c.at) = {} THEN {0} ELSE sqliteSelect(db.jobs, c.at)}
    [] c.name = "retryFromDLQ" -> {sqliteRetryFromDLQ(db, c.id, t)}

\* while (running) { job = await storage.leaseNext(new Date()) ... }; the
\* method takes any instant, and the flow test passes one ahead of the clock.
CallLeaseNext(p) ==
  /\ harness \in {"store", "dlq", "sweep", "order"}
  /\ pc[p] = "idle"
  /\ \E at \in now..MaxTime :
       call' = [call EXCEPT ![p] = MakeCall("leaseNext", NullJob, NoJob, at)]
  /\ pc' = [pc EXCEPT ![p] = "calling"]
  /\ UNCHANGED <<backend, jobsFile, dlqFile, lock, plan, held, nextId, due0, sweep>>
  /\ StoreFrame

\* --max-retries of the jobs enqueued: 0 where the dead letter queue is
\* exercised (the first failure makes the job dead).
Retries == IF harness \in {"dlq", "sweep", "order"} THEN 0 ELSE MaxRetries

\* Jobs with distinct ids enqueued where the dead letter queue is exercised.
MaxDeadJobs == 1

\* `enqueue`: storage.enqueue(Job.create(...)) with a fresh id.
CallEnqueue(p) ==
  /\ harness \in {"store", "dlq", "sweep", "order", "init"}
  /\ pc[p] = "idle"
  /\ nextId <= (IF harness \in {"dlq", "sweep"} THEN MaxDeadJobs ELSE MaxJobs)
  /\ call' = [call EXCEPT ![p] =
                MakeCall("enqueue", create(nextId, Retries, MaxBase, Undef, now), nextId, 0)]
  /\ nextId' = nextId + 1
  /\ pc' = [pc EXCEPT ![p] = "calling"]
  /\ UNCHANGED <<backend, jobsFile, dlqFile, lock, plan, held, due0, sweep>>
  /\ StoreFrame

\* storage.enqueue(Job.create({id, ...})) with the id of a dead letter;
\* nextId counts the enqueue calls made.
CallEnqueueAgain(p) ==
  /\ harness = "dlq"
  /\ pc[p] = "idle"
  /\ nextId <= MaxDeadJobs + 1
  /\ nextId' = nextId + 1
  /\ \E id \in {dlqFile[i].id : i \in 1..Len(dlqFile)} :
       /\ findIndex(jobsFile, id) = 0
       /\ call' = [call EXCEPT ![p] =
                     MakeCall("enqueue", create(id, Retries, MaxBase, Undef, now), id, 0)]
  /\ pc' = [pc EXCEPT ![p] = "calling"]
  /\ UNCHANGED <<backend, jobsFile, dlqFile, lock, plan, held, due0, sweep>>
  /\ StoreFrame

\* `dlq retry <id>`: storage.retryFromDLQ(id).
CallRetryFromDLQ(p) ==
  /\ harness \in {"store", "dlq", "sweep", "order"}
  /\ pc[p] = "idle"
  /\ \E id \in 1..(nextId - 1) :
       call' = [call EXCEPT ![p] = MakeCall("retryFromDLQ", NullJob, id, 0)]
  /\ pc' = [pc EXCEPT ![p] = "calling"]
  /\ UNCHANGED <<backend, jobsFile, dlqFile, lock, plan, held, nextId, due0, sweep>>
  /\ StoreFrame

\* executor.execute(job) resolved: job.markCompleted(); storage.update(job).
ExecOk(p) ==
  /\ harness \in {"store", "dlq", "sweep", "order"}
  /\ pc[p] = "executing"
  /\ \E r \in {markCompleted(held[p], now)} :
       /\ ~r.threw
       /\ held' = [held EXCEPT ![p] = r.job]
       /\ call' = [call EXCEPT ![p] = MakeCall("update", r.job, r.job.id, 0)]
  /\ pc' = [pc EXCEPT ![p] = "calling"]
  /\ UNCHANGED <<backend, jobsFile, dlqFile, lock, plan, nextId, due0, sweep>>
  /\ StoreFrame

\* executor.execute(job) rejected: job.markFailed(err), then moveToDLQ when
\* the job is dead and update otherwise.
ExecFail(p) ==
  /\ harness \in {"store", "dlq", "sweep", "order"}
  /\ pc[p] = "executing"
  /\ held[p].attempts < MaxAttempts
  /\ \E e \in Errors : \E r \in {markFailed(held[p], e, now)} :
       /\ ~r.threw
       /\ held' = [held EXCEPT ![p] = r.job]
       /\ call' = [call EXCEPT ![p] =
                     MakeCall(IF r.job.state = "dead" THEN "moveToDLQ" ELSE "update",
                              r.job, r.job.id, 0)]
  /\ pc' = [pc EXCEPT ![p] = "calling"]
  /\ UNCHANGED <<backend, jobsFile, dlqFile, lock, plan, nextId, due0, sweep>>
  /\ StoreFrame

\* A caller that writes the failure back whatever came of it, as the flow
\* test does: leased.markFailed(err); storage.update(leased). A dead job
\* then sits in the main collection until it is moved.
ExecFailUpdate(p) ==
  /\ harness = "sweep"
  /\ pc[p] = "executing"
  /\ held[p].attempts < MaxAttempts
  /\ \E e \in Errors : \E r \in {markFailed(held[p], e, now)} :
       /\ ~r.threw
       /\ held' = [held EXCEPT ![p] = r.job]
       /\ call' = [call EXCEPT ![p] = MakeCall("update", r.job, r.job.id, 0)]
  /\ pc' = [pc EXCEPT ![p] = "calling"]
  /\ UNCHANGED <<backend, jobsFile, dlqFile, lock, plan, nextId, due0, sweep>>
  /\ StoreFrame

\* list(state): the stored records in that state, hydrated, read without
\* the lock.
list(recs, state) ==
  LET dead == {i \in 1..Len(recs) : recs[i].state = state}
      nth(k) == CHOOSE i \in dead : Cardinality({j \in dead : j < i}) = k - 1
  IN [k \in 1..Cardinality(dead) |-> fromJSON(recs[nth(k)])]

\* Sweeps each caller begins.
MaxSweeps == 1

\* DLQManager.sweepDeadToDLQ: const dead = await storage.list('dead').
CallSweep(p) ==
  /\ harness = "sweep"
  /\ pc[p] = "idle"
  /\ sweep[p].runs < MaxSweeps
  /\ sweep' = [sweep EXCEPT ![p] = [active |-> TRUE, todo |-> list(jobsFile, "dead"),
                                    runs |-> @.runs + 1]]
  /\ pc' = [pc EXCEPT ![p] = "sweeping"]
  /\ UNCHANGED <<backend, jobsFile, dlqFile, lock, call, plan, held, nextId, due0>>
  /\ StoreFrame

\* for (const j of dead) { await this.storage.moveToDLQ(j); moved++ }, and
\* the return after the last one.
SweepMove(p) ==
  /\ harness = "sweep"
  /\ pc[p] = "sweeping"
  /\ IF sweep[p].todo = <<>>
     THEN /\ sweep' = [sweep EXCEPT ![p].active = FALSE]
          /\ pc' = [pc EXCEPT ![p] = "idle"]
          /\ UNCHANGED call
     ELSE /\ sweep' = [sweep EXCEPT ![p].todo = Tail(@)]
          /\ call' = [call EXCEPT ![p] =
                        MakeCall("moveToDLQ", Head(sweep[p].todo), Head(sweep[p].todo).id, 0)]
          /\ pc' = [pc EXCEPT ![p] = "calling"]
  /\ UNCHANGED <<backend, jobsFile, dlqFile, lock, plan, held, nextId, due0>>
  /\ StoreFrame

\* withLock creates the lock file; fn reads the documents and decides.
Acquire(p) ==
  /\ backend = "json"
  /\ pc[p] = "calling"
  /\ \E o \in {openExclusive(lock, p)} :
       /\ o.ok
       /\ lock' = o.lock
  /\ plan' = [plan EXCEPT ![p] = jsonBody(call[p], Docs, now)]
  /\ pc' = [pc EXCEPT ![p] = "locked"]
  /\ UNCHANGED <<backend, jobsFile, dlqFile, call, held, nextId, due0, sweep>>
  /\ StoreFrame

\* A timeout that unlinks the lock file on its way out, as the finally
\* block around fn does.
LockTimeout_unlinks(p) ==
  /\ backend = "json"
  /\ pc[p] = "calling"
  /\ ~openExclusive(lock, p).ok
  /\ lock' = NoProc
  /\ plan' = [plan EXCEPT ![p] = Outcome(NullJob, TRUE)]
  /\ pc' = [pc EXCEPT ![p] = "done"]
  /\ UNCHANGED <<backend, jobsFile, dlqFile, call, held, nextId, due0, sweep>>
  /\ StoreFrame

\* The lock file exists and lockTimeoutMs have gone by: withLock throws.
LockTimeout(p) ==
  /\ backend = "json"
  /\ pc[p] = "calling"
  /\ ~openExclusive(lock, p).ok
  /\ plan' = [plan EXCEPT ![p] = Outcome(NullJob, TRUE)]
  /\ pc' = [pc EXCEPT ![p] = "done"]
  /\ UNCHANGED <<backend, jobsFile, dlqFile, lock, call, held, nextId, due0, sweep>>
  /\ StoreFrame

\* writeJobs / writeDLQ: one of the files fn still has to write.
Write(p) ==
  /\ backend = "json"
  /\ pc[p] = "locked"
  /\ \E f \in plan[p].wr :
       /\ jobsFile' = IF f = "jobs" THEN plan[p].jobs ELSE jobsFile
       /\ dlqFile' = IF f = "dlq" THEN plan[p].dlq ELSE dlqFile
       /\ plan' = [plan EXCEPT ![p].wr = @ \ {f}]
       /\ exists' = exists \cup {f}
  /\ UNCHANGED <<backend, lock, pc, call, held, nextId, due0, sweep>>
  /\ FileFrame

\* finally { unlink(lock) }: fn has returned or thrown.
Unlock(p) ==
  /\ backend = "json"
  /\ pc[p] = "locked"
  /\ plan[p].wr = {}
  /\ lock' = NoProc
  /\ plan' = [plan EXCEPT ![p] = Outcome(plan[p].ret, plan[p].threw)]
  /\ pc' = [pc EXCEPT ![p] = "done"]
  /\ UNCHANGED <<backend, jobsFile, dlqFile, call, held, nextId, due0, sweep>>
  /\ StoreFrame

\* A SqliteStorage method: one statement or one transaction.
SqliteRun(p) ==
  /\ backend = "sqlite"
  /\ pc[p] = "calling"
  /\ \E r \in sqliteResults(call[p], Docs, now) :
       /\ jobsFile' = r.jobs
       /\ dlqFile' = r.dlq
       /\ plan' = [plan EXCEPT ![p] = Outcome(r.ret, r.threw)]
  /\ pc' = [pc EXCEPT ![p] = "done"]
  /\ UNCHANGED <<backend, lock, call, held, nextId, due0, sweep>>
  /\ StoreFrame

\* The awaited call settles. A leaseNext that threw, and an update or
\* moveToDLQ that threw (in the try block the catch then calls markFailed on a
\* completed job, which throws), reject the loop. A moveToDLQ made by a sweep
\* goes back to the sweep's loop, and rejects the sweep when it threw.
Return(p) ==
  /\ harness \in {"store", "dlq", "sweep", "order"}
  /\ pc[p] = "done"
  /\ \E c \in {call[p]}, r \in {plan[p]} :
       /\ pc' = [pc EXCEPT ![p] =
                   IF sweep[p].active
                   THEN (IF r.threw THEN "idle" ELSE "sweeping")
                   ELSE IF c.name \in {"leaseNext", "update", "moveToDLQ"} /\ r.threw
                   THEN "crashed"
                   ELSE IF c.name = "leaseNext" /\ r.ret # NullJob THEN "executing"
                   ELSE "idle"]
       /\ held' = [held EXCEPT ![p] =
                     IF c.name = "leaseNext" /\ ~r.threw THEN r.ret
                     ELSE IF c.name \in {"update", "moveToDLQ"} THEN NullJob
                     ELSE @]
       /\ sweep' = [sweep EXCEPT ![p] =
                      IF r.threw THEN [@ EXCEPT !.active = FALSE, !.todo = <<>>] ELSE @]
  /\ call' = [call EXCEPT ![p] = NoCall]
  /\ plan' = [plan EXCEPT ![p] = NoPlan]
  /\ UNCHANGED <<backend, jobsFile, dlqFile, lock, nextId, due0>>
  /\ StoreFrame

\* `worker start` is run again after the loop rejected.
Restart(p) ==
  /\ harness \in {"store", "dlq", "sweep", "order"}
  /\ pc[p] = "crashed"
  /\ pc' = [pc EXCEPT ![p] = "idle"]
  /\ UNCHANGED <<backend, jobsFile, dlqFile, lock, call, plan, held, nextId, due0, sweep>>
  /\ StoreFrame

InitStore ==
  /\ harness = "store"
  /\ backend \in {"json", "sqlite"}
  /\ InitCommon
  /\ InitCallers
  /\ jobObj = NullJob

NextStore ==
  \/ \E p \in Procs : CallLeaseNext(p)
  \/ \E p \in Procs : CallEnqueue(p)
  \/ \E p \in Procs : CallRetryFromDLQ(p)
  \/ \E p \in Procs : ExecOk(p)
  \/ \E p \in Procs : ExecFail(p)
  \/ \E p \in Procs : Acquire(p)
  \/ \E p \in Procs : LockTimeout(p)
  \/ \E p \in Procs : Write(p)
  \/ \E p \in Procs : Unlock(p)
  \/ \E p \in Procs : SqliteRun(p)
  \/ \E p \in Procs : Return(p)
  \/ \E p \in Procs : Restart(p)
  \/ Tick /\ harness = "store"

SpecStore == InitStore /\ [][NextStore]_vars

\* ------------------------------------------------------------------ the dead letter queue
\* The same callers with jobs of max_retries = 0, and enqueue calls that
\* reuse the id of a dead letter.
InitDlq ==
  /\ harness = "dlq"
  /\ backend \in {"json", "sqlite"}
  /\ InitCommon
  /\ InitCallers
  /\ jobObj = NullJob

NextDlq ==
  \/ \E p \in Procs : CallLeaseNext(p)
  \/ \E p \in Procs : CallEnqueue(p)
  \/ \E p \in Procs : CallEnqueueAgain(p)
  \/ \E p \in Procs : CallRetryFromDLQ(p)
  \/ \E p \in Procs : ExecOk(p)
  \/ \E p \in Procs : ExecFail(p)
  \/ \E p \in Procs : Acquire(p)
  \/ \E p \in Procs : LockTimeout(p)
  \/ \E p \in Procs : Write(p)
  \/ \E p \in Procs : Unlock(p)
  \/ \E p \in Procs : SqliteRun(p)
  \/ \E p \in Procs : Return(p)
  \/ \E p \in Procs : Restart(p)
  \/ Tick /\ harness = "dlq"

SpecDlq == InitDlq /\ [][NextDlq]_vars

\* ------------------------------------------------------------------ the sweep
\* Callers that write a dead job back before it is moved, and sweeps, one
\* after another or at once, that move what was left behind.
InitSweep ==
  /\ harness = "sweep"
  /\ backend \in {"json", "sqlite"}
  /\ InitCommon
  /\ InitCallers
  /\ jobObj = NullJob

NextSweep ==
  \/ \E p \in Procs : CallLeaseNext(p)
  \/ \E p \in Procs : CallEnqueue(p)
  \/ \E p \in Procs : CallRetryFromDLQ(p)
  \/ \E p \in Procs : ExecFail(p)
  \/ \E p \in Procs : ExecFailUpdate(p)
  \/ \E p \in Procs : CallSweep(p)
  \/ \E p \in Procs : SweepMove(p)
  \/ \E p \in Procs : Acquire(p)
  \/ \E p \in Procs : LockTimeout(p)
  \/ \E p \in Procs : Write(p)
  \/ \E p \in Procs : Unlock(p)
  \/ \E p \in Procs : SqliteRun(p)
  \/ \E p \in Procs : Return(p)
  \/ \E p \in Procs : Restart(p)
  \/ Tick /\ harness = "sweep"

SpecSweep == InitSweep /\ [][NextSweep]_vars

\* ------------------------------------------------------------------ the order of the DLQ
\* Several jobs that die and are revived, in any order.
InitOrder ==
  /\ harness = "order"
  /\ backend \in {"json", "sqlite"}
  /\ InitCommon
  /\ InitCallers
  /\ jobObj = NullJob

NextOrder ==
  \/ \E p \in Procs : CallLeaseNext(p)
  \/ \E p \in Procs : CallEnqueue(p)
  \/ \E p \in Procs : CallRetryFromDLQ(p)
  \/ \E p \in Procs : ExecFail(p)
  \/ \E p \in Procs : Acquire(p)
  \/ \E p \in Procs : LockTimeout(p)
  \/ \E p \in Procs : Write(p)
  \/ \E p \in Procs : Unlock(p)
  \/ \E p \in Procs : SqliteRun(p)
  \/ \E p \in Procs : Return(p)
  \/ \E p \in Procs : Restart(p)
  \/ Tick /\ harness = "order"

SpecOrder == InitOrder /\ [][NextOrder]_vars

\* ------------------------------------------------------------------ concurrent leaseNext
\* MaxProcs leaseNext(at) calls begin together on a store that holds some
\* jobs, and nothing else runs.
Samples(id) ==
  LET fresh(m, ra) == create(id, m, MaxBase, ra, 0)
      leased(m) == markProcessing(fresh(m, Undef), 0).job
  IN {toJSON(j) :
        j \in {fresh(MaxRetries, ra) : ra \in RunAts}
              \cup {leased(MaxRetries), markCompleted(leased(MaxRetries), 0).job}
              \cup {markFailed(leased(m), "boom", 0).job : m \in {MaxRetries, MaxRetries + 1}}}

StoredJobs ==
  UNION {{recs \in [1..n -> UNION {Samples(id) : id \in JobIds}] :
            \A i \in 1..n : recs[i] \in Samples(i)} : n \in 0..MaxJobs}

\* The ids leaseNext(at) of this backend would consider on recs.
dueIds(b, recs, at) ==
  {recs[i].id : i \in IF b = "json" THEN jsonCandidates(recs, at)
                      ELSE {k \in 1..Len(recs) : sqliteDue(recs[k], at)}}

InitLease ==
  /\ harness = "lease"
  /\ backend \in {"json", "sqlite"}
  /\ InitCommon
  /\ jobObj = NullJob
  /\ jobsFile \in StoredJobs
  /\ dlqFile = <<>>
  /\ lock = NoProc
  /\ \E at \in Times :
       /\ call = [p \in Procs |-> MakeCall("leaseNext", NullJob, NoJob, at)]
       /\ due0 = dueIds(backend, jobsFile, at)
  /\ pc = [p \in Procs |-> "calling"]
  /\ plan = [p \in Procs |-> NoPlan]
  /\ held = [p \in Procs |-> NullJob]
  /\ nextId = Len(jobsFile) + 1
  /\ sweep = [p \in Procs |-> NoSweep]
  /\ exists = Files

NextLease ==
  \/ \E p \in Procs : Acquire(p)
  \/ \E p \in Procs : LockTimeout(p)
  \/ \E p \in Procs : Write(p)
  \/ \E p \in Procs : Unlock(p)
  \/ \E p \in Procs : SqliteRun(p)

SpecLease == InitLease /\ [][NextLease]_vars

\* ------------------------------------------------------------------ every deployment
InitLife == InitJob \/ InitQueue \/ InitStore
NextLife == NextJob \/ NextQueue \/ NextStore
SpecLife == InitLife /\ [][NextLife]_vars

\* ------------------------------------------------------------------ JsonStorage.init
\* ensureFile up to its catch: fs.access(filePath) resolves when the file
\* exists and rejects when it does not. (The mkdir before it changes nothing
\* that is modelled.)
EnsureAccess(p) ==
  /\ harness = "init"
  /\ pc[p] \in {"ensure jobs", "ensure dlq"}
  /\ \E f \in {IF pc[p] = "ensure jobs" THEN "jobs" ELSE "dlq"} :
       pc' = [pc EXCEPT ![p] =
                IF f \notin exists THEN (IF f = "jobs" THEN "create jobs" ELSE "create dlq")
                ELSE IF f = "jobs" THEN "ensure dlq" ELSE "idle"]
  /\ UNCHANGED <<backend, jobsFile, dlqFile, lock, call, plan, held, nextId, due0, sweep, exists>>
  /\ FileFrame

\* The catch of ensureFile: fs.writeFile(filePath, '[]\n'), whatever the file
\* holds by now.
EnsureWrite(p) ==
  /\ harness = "init"
  /\ pc[p] \in {"create jobs", "create dlq"}
  /\ \E f \in {IF pc[p] = "create jobs" THEN "jobs" ELSE "dlq"} :
       /\ jobsFile' = IF f = "jobs" THEN <<>> ELSE jobsFile
       /\ dlqFile' = IF f = "dlq" THEN <<>> ELSE dlqFile
       /\ exists' = exists \cup {f}
       /\ pc' = [pc EXCEPT ![p] = IF f = "jobs" THEN "ensure dlq" ELSE "idle"]
  /\ UNCHANGED <<backend, lock, call, plan, held, nextId, due0, sweep>>
  /\ FileFrame

\* withStorage in processes started on an empty directory: each calls
\* init(), then enqueues one job, and exits when enqueue has settled.
InitInit ==
  /\ harness = "init"
  /\ backend = "json"
  /\ InitCommon
  /\ jobsFile = <<>>
  /\ dlqFile = <<>>
  /\ lock = NoProc
  /\ pc = [p \in Procs |-> "ensure jobs"]
  /\ call = [p \in Procs |-> NoCall]
  /\ plan = [p \in Procs |-> NoPlan]
  /\ held = [p \in Procs |-> NullJob]
  /\ nextId = 1
  /\ due0 = {}
  /\ sweep = [p \in Procs |-> NoSweep]
  /\ exists = {}
  /\ jobObj = NullJob

NextInit ==
  \/ \E p \in Procs : EnsureAccess(p)
  \/ \E p \in Procs : EnsureWrite(p)
  \/ \E p \in Procs : CallEnqueue(p)
  \/ \E p \in Procs : Acquire(p)
  \/ \E p \in Procs : LockTimeout(p)
  \/ \E p \in Procs : Write(p)
  \/ \E p \in Procs : Unlock(p)
  \/ Tick /\ harness = "init"

SpecInit == InitInit /\ [][NextInit]_vars

\* Queue.dequeue and the backends' leaseNext, side by side.
SpecLeasing == (InitQueue \/ InitLease) /\ [][NextQueue \/ NextLease]_vars

\* Every deployment and scenario above.
Init == InitJob \/ InitQueue \/ InitWorker \/ InitStore \/ InitLease \/ InitDlq \/ InitSweep \/ InitOrder \/ InitRestart \/ InitInit \/ InitRetry
Next == NextJob \/ NextQueue \/ NextWorker \/ NextStore \/ NextLease \/ NextDlq \/ NextSweep \/ NextOrder \/ NextRestart \/ NextInit \/ NextRetry
Spec == Init /\ [][Next]_vars

\* ================================================================== claims
\* The state a store holds for the job id, "absent" if it holds none.
StoredState(recs, id) ==
  IF findIndex(recs, id) = 0 THEN "absent" ELSE recs[findIndex(recs, id)].state

\* The caller p has a lease: leaseNext gave it a job it has not yet handed
\* back to update or moveToDLQ.
HoldsLease(p) == held[p] # NullJob /\ pc[p] \in {"executing", "calling"}

\* The step in which p's leaseNext marks a job processing in the store.
LeaseCommits(p) ==
  /\ call[p].name = "leaseNext"
  /\ \/ backend = "json" /\ pc[p] = "locked" /\ plan'[p].wr # plan[p].wr
     \/ backend = "sqlite" /\ pc[p] = "calling" /\ pc'[p] = "done" /\ plan'[p].ret # NullJob

LeasedId(p) == IF backend = "json" THEN plan[p].ret.id ELSE plan'[p].ret.id

\* C1: in either backend, under every interleaving of callers, leaseNext
\* never marks and returns a job whose stored state is processing, and no two
\* callers have a lease on the same job at once.
C1_AtMostOneLease ==
  [][/\ \A p \in Procs :
          LeaseCommits(p) => StoredState(jobsFile, LeasedId(p)) \in {"pending", "failed"}
     /\ \A p, q \in Procs :
          (p # q /\ HoldsLease(p)' /\ HoldsLease(q)') => held'[p].id # held'[q].id]_vars

C1_Witness ==
  /\ harness = "store"
  /\ backend = "json"
  /\ \E p, q \in Procs :
       /\ HoldsLease(p)
       /\ pc[q] = "done"
       /\ call[q].name = "leaseNext"
       /\ plan[q] = NoPlan
       /\ StoredState(jobsFile, held[p].id) = "processing"
       /\ Len(jobsFile) = 1

Leased == {p \in Procs : pc[p] = "done" /\ ~plan[p].threw /\ plan[p].ret # NullJob}
Empty == {p \in Procs : pc[p] = "done" /\ ~plan[p].threw /\ plan[p].ret = NullJob}
Failed == {p \in Procs : pc[p] = "done" /\ plan[p].threw}
AllDone == harness = "lease" /\ \A p \in Procs : pc[p] = "done"
StillDue == dueIds(backend, jobsFile, call[1].at)
Min(a, b) == IF a < b THEN a ELSE b
Distinct == \A p, q \in Leased : p # q => plan[p].ret.id # plan[q].ret.id

ClaimDue(rec, at) ==
  \/ rec.state = "pending" /\ (rec.run_at = Undef \/ rec.run_at <= at)
  \/ rec.state = "failed" /\ rec.attempts <= rec.max_retries /\ rec.next_attempt_at <= at

\* C3: leaseNext(at) returns a failed job whenever at >= its next_attempt_at
\* and no other job is due, also after its m-th failure (attempts = m =
\* max_retries); the failure after that makes it dead with attempts = m + 1.
C3_LeasedAgainAfterEachFailure ==
  [][\A p \in Procs :
       /\ (/\ call[p].name = "leaseNext"
           /\ pc[p] = "calling"
           /\ pc'[p] \in {"locked", "done"}
           /\ ~plan'[p].threw)
          => \A i \in 1..Len(jobsFile) :
               (/\ ClaimDue(jobsFile[i], call[p].at)
                /\ \A k \in 1..Len(jobsFile) : k # i => ~ClaimDue(jobsFile[k], call[p].at))
               => plan'[p].ret.id = jobsFile[i].id
       /\ (pc[p] = "executing" /\ pc'[p] = "calling" /\ held'[p].state \in {"failed", "dead"})
          => (held'[p].state = "dead" <=> held'[p].attempts = held[p].max_retries + 1)]_vars

\* C4: with Worker loops running fairly over a Queue, an executor that always
\* returns or throws, time advancing and no administrative calls, every
\* enqueued job eventually reaches completed or dead.
C4_EveryJobFinishes ==
  \A id \in JobIds :
    (id \in DOMAIN jobs) ~> (id \in DOMAIN jobs /\ jobs[id].state \in {"completed", "dead"})

\* C5: markFailed on a processing job adds exactly 1 to attempts; the job is
\* dead with next_attempt_at cleared iff the new attempts exceeds max_retries,
\* otherwise failed with next_attempt_at = now + backoff_base^attempts; so
\* without resets the k-th failure gives failed for k <= max_retries and dead
\* for k = max_retries + 1, and attempts is the number of markFailed calls.
C5_MarkFailedRule ==
  [][/\ (op'.name = "markFailed" /\ ~op'.threw) =>
          /\ jobObj.state = "processing"
          /\ jobObj'.attempts = jobObj.attempts + 1
          /\ IF jobObj'.attempts > jobObj.max_retries
             THEN jobObj'.state = "dead" /\ jobObj'.next_attempt_at = Undef
             ELSE /\ jobObj'.state = "failed"
                  /\ jobObj'.next_attempt_at =
                       now + Pow(jobObj.backoff_base, jobObj'.attempts)
          /\ nReset = 0 =>
               /\ nFailed' <= jobObj.max_retries + 1
               /\ nFailed' <= jobObj.max_retries => jobObj'.state = "failed"
               /\ nFailed' = jobObj.max_retries + 1 => jobObj'.state = "dead"
     /\ nReset' = 0 => jobObj'.attempts = nFailed']_vars

C5_Witness ==
  /\ harness = "job"
  /\ op.name = "markFailed"
  /\ ~op.threw
  /\ nReset = 0
  /\ jobObj.max_retries >= 1
  /\ jobObj.state = "dead"
  /\ nFailed = jobObj.max_retries + 1

\* C6: markProcessing succeeds only from pending or failed, markCompleted and
\* markFailed only from processing, resetForRetry only from dead or failed;
\* a call from any other state throws and leaves every field unchanged.
C6_TransitionGuards ==
  [][/\ op'.name = "markProcessing" =>
          (op'.threw <=> jobObj.state \notin {"pending", "failed"})
     /\ op'.name = "markCompleted" => (op'.threw <=> jobObj.state # "processing")
     /\ op'.name = "markFailed" => (op'.threw <=> jobObj.state # "processing")
     /\ op'.name = "resetForRetry" =>
          (op'.threw <=> jobObj.state \notin {"dead", "failed"})
     /\ op'.threw => jobObj' = jobObj]_vars

C6_Witness ==
  /\ harness = "job"
  /\ op.name = "resetForRetry"
  /\ op.threw
  /\ jobObj.state = "processing"
  /\ jobObj.attempts = 1

\* C7: every change of a job's state made by a Queue operation follows one of
\* the edges pending->processing, processing->completed, processing->failed,
\* processing->dead, failed->processing, failed->pending, dead->pending.
Edges ==
  {Edge("pending", "processing"), Edge("processing", "completed"),
   Edge("processing", "failed"), Edge("processing", "dead"),
   Edge("failed", "processing"), Edge("failed", "pending"), Edge("dead", "pending")}

C7_OnlyStateMachineEdges ==
  [][/\ \A id \in DOMAIN jobs :
          jobs'[id].state # jobs[id].state =>
            Edge(jobs[id].state, jobs'[id].state) \in Edges
     /\ \A id \in JobIds :
          (/\ StoredState(jobsFile, id) # "absent"
           /\ StoredState(jobsFile', id) # "absent"
           /\ StoredState(jobsFile', id) # StoredState(jobsFile, id))
          => Edge(StoredState(jobsFile, id), StoredState(jobsFile', id)) \in Edges]_vars

\* C8: next_attempt_at is set only if state = failed; it is absent whenever
\* the job is pending, processing, completed or dead.
C8_NextAttemptOnlyWhenFailed ==
  /\ jobObj.next_attempt_at # Undef => jobObj.state = "failed"
  /\ \A id \in DOMAIN jobs : jobs[id].next_attempt_at # Undef => jobs[id].state = "failed"
  /\ \A i \in 1..Len(jobsFile) :
       jobsFile[i].next_attempt_at # Undef => jobsFile[i].state = "failed"

\* The attempts a store holds for the job id (in jobs, else in the DLQ),
\* Undef if it holds none.
Payload(row) == IF "payload" \in DOMAIN row THEN row.payload ELSE row

StoredAttempts(id) ==
  IF findIndex(jobsFile, id) # 0 THEN jobsFile[findIndex(jobsFile, id)].attempts
  ELSE IF findIndex(dlqFile, id) # 0 THEN Payload(dlqFile[findIndex(dlqFile, id)]).attempts
  ELSE Undef

DequeueAt(at) == dequeue(Q, at, now).ret

\* The due time the ordering uses: run_at, else created_at, for a pending
\* job; next_attempt_at (the current instant if it has none) for a failed one.
DueTime(job) ==
  IF job.state = "pending"
  THEN (IF job.run_at # Undef THEN job.run_at ELSE job.created_at)
  ELSE (IF job.next_attempt_at # Undef THEN job.next_attempt_at ELSE now)

InQueue == harness \in {"queue", "worker"}

\* C11 (as stated): dequeue({at}) never returns a job whose effective due
\* time (run_at, or created_at when run_at is unset, for a pending job;
\* next_attempt_at for a failed one) is later than at.
C11_NeverBeforeEffectiveDueTime ==
  InQueue =>
    \A at \in Times :
      DequeueAt(at) # NoJob => DueTime(jobs[DequeueAt(at)]) <= at

\* C11 (amended): dequeue({at}) never returns a pending job whose run_at is
\* later than at, nor a failed job whose next_attempt_at is later than at; a
\* pending job without run_at is returned at every query time.
C11_NeverBeforeRunAtOrNextAttempt ==
  InQueue =>
    \A at \in Times :
      /\ DequeueAt(at) # NoJob =>
           /\ jobs[DequeueAt(at)].state \in {"pending", "failed"}
           /\ jobs[DequeueAt(at)].state = "pending" =>
                (jobs[DequeueAt(at)].run_at = Undef \/ jobs[DequeueAt(at)].run_at <= at)
           /\ jobs[DequeueAt(at)].state = "failed" =>
                (jobs[DequeueAt(at)].next_attempt_at = Undef
                   \/ jobs[DequeueAt(at)].next_attempt_at <= at)
      /\ (\E id \in DOMAIN jobs :
            jobs[id].state = "pending" /\ stateOf[id] = "pending" /\ jobs[id].run_at = Undef)
          => DequeueAt(at) # NoJob

C11_Witness ==
  /\ harness = "queue"
  /\ \E a, b \in DOMAIN jobs :
       /\ stateOf[a] = "processing" /\ deqSince[a] = 1
       /\ jobs[a].run_at = Undef
       /\ stateOf[b] = "pending" /\ jobs[b].run_at # Undef /\ jobs[b].run_at > now
       /\ DequeueAt(now) = NoJob

\* The candidates of dequeue({at}): the jobs of the pending and failed sets
\* that are due at at.
Candidates(at) ==
  {id \in (byState["pending"] \cup byState["failed"]) : isDue(jobs[id], at)}

Earlier(a, b) ==
  \/ DueTime(jobs[a]) < DueTime(jobs[b])
  \/ DueTime(jobs[a]) = DueTime(jobs[b]) /\ insertionOrder[a] < insertionOrder[b]

\* C12: dequeue(at) returns, among the jobs of the pending and failed sets
\* due at at, the one with the least (effective due time, insertion
\* sequence), whichever set it is in, and null iff no candidate is due.
C12_EarliestDueThenFirstEnqueued ==
  InQueue =>
    \A at \in Times :
      /\ DequeueAt(at) = NoJob <=> Candidates(at) = {}
      /\ DequeueAt(at) # NoJob =>
           /\ DequeueAt(at) \in Candidates(at)
           /\ \A b \in Candidates(at) \ {DequeueAt(at)} : Earlier(DequeueAt(at), b)

C12_Witness ==
  /\ harness = "queue"
  /\ \E a, b \in DOMAIN jobs :
       /\ a # b
       /\ stateOf[a] = "processing" /\ deqSince[a] = 1
       /\ stateOf[b] = "pending" /\ isDue(jobs[b], now)
       /\ jobs[a].run_at = Undef /\ jobs[b].run_at = Undef
       /\ jobs[a].created_at = jobs[b].created_at
       /\ insertionOrder[a] < insertionOrder[b]
       /\ jobs[a].attempts = 0 /\ nUpdate = 0

\* The Queue that holds the stored records, enqueued in stored order and
\* brought to their states by dequeue, complete and fail.
queueOf(recs) ==
  [jobs |-> [id \in {recs[i].id : i \in 1..Len(recs)} |-> fromJSON(recs[findIndex(recs, id)])],
   stateOf |-> [id \in {recs[i].id : i \in 1..Len(recs)} |-> recs[findIndex(recs, id)].state],
   byState |-> [st \in JobState |-> {recs[i].id : i \in {k \in 1..Len(recs) : recs[k].state = st}}],
   insertSeq |-> Len(recs),
   insertionOrder |-> [id \in {recs[i].id : i \in 1..Len(recs)} |-> findIndex(recs, id)]]

\* The job each implementation selects on the stored records at query time
\* at (NoJob: none); SQL may give any of the rows with equal sort keys.
jsonPick(recs, at) ==
  jsonLeaseNext([jobs |-> recs, dlq |-> <<>>], at, now).ret.id

sqlitePicks(recs, at) ==
  IF sqliteSelect(recs, at) = {} THEN {NoJob}
  ELSE {recs[i].id : i \in sqliteSelect(recs, at)}

queuePick(recs, at) == dequeue(queueOf(recs), at, now).ret

InStore == harness \in {"store", "lease"}

\* C13: on the same job records, built by the same operations, and the same
\* query time, JsonStorage.leaseNext, SqliteStorage.leaseNext and
\* Queue.dequeue select the same job, or all select none (where SQL leaves
\* the order of equal rows open, SqliteStorage can select that job).
C13_SameSelection ==
  (InStore /\ \A p \in Procs : pc[p] \in {"idle", "executing", "calling"}) =>
    \A at \in Times :
      /\ jsonPick(jobsFile, at) \in sqlitePicks(jobsFile, at)
      /\ queuePick(jobsFile, at) = jsonPick(jobsFile, at)

InMain(id) == findIndex(jobsFile, id) # 0
InDlq(id) == findIndex(dlqFile, id) # 0
InOne(id) == InMain(id) # InDlq(id)

\* C14: while moveToDLQ(job) runs and after it, whatever a reader without
\* the lock (list, getById, listDLQ) finds at any moment, the job is in
\* exactly one of the main collection and the DLQ: never in both, never in
\* neither.
C14_MoveToDLQAtomic ==
  [][\A p \in Procs :
       (/\ call[p].name = "moveToDLQ"
        /\ pc[p] \in {"calling", "locked"}
        /\ InMain(call[p].id) /\ ~InDlq(call[p].id))
         => InOne(call[p].id)']_vars

\* The step in which the call of p takes effect: the transaction of
\* SqliteStorage, and for JsonStorage the run of fn under the lock, whose
\* decided documents the writes then install before the lock is released.
Decides(p, name) ==
  call[p].name = name /\ pc[p] = "calling" /\ pc'[p] \in {"locked", "done"}

Decided(p) ==
  [jobs |-> IF pc'[p] = "locked" THEN plan'[p].jobs ELSE jobsFile',
   dlq |-> IF pc'[p] = "locked" THEN plan'[p].dlq ELSE dlqFile',
   ret |-> plan'[p].ret,
   threw |-> plan'[p].threw]

Installed(p) ==
  (backend = "json" /\ pc[p] = "locked" /\ pc'[p] = "done")
    => (jobsFile' = plan[p].jobs /\ dlqFile' = plan[p].dlq)

Unchanged(d) == d.jobs = jobsFile /\ d.dlq = dlqFile

Revived(job, id) ==
  /\ job.id = id /\ job.state = "pending" /\ job.attempts = 0
  /\ job.next_attempt_at = Undef /\ job.last_error = NoError

\* C15: a moveToDLQ(job) of a dead job that returns leaves the job out of
\* the main collection and in the DLQ; a retryFromDLQ(id) that returns a job
\* takes its entry out of the DLQ, stores it in the main collection as
\* pending with attempts 0, next_attempt_at and last_error cleared, and
\* returns it; for an id that is not in the DLQ it returns null (unless the
\* lock times out) and changes nothing; when it throws it changes nothing.
C15_DLQRoundTrip ==
  [][\A p \in Procs :
       /\ Installed(p)
       /\ (Decides(p, "moveToDLQ") /\ ~Decided(p).threw) =>
            /\ findIndex(Decided(p).jobs, call[p].id) = 0
            /\ findIndex(Decided(p).dlq, call[p].id) # 0
       /\ Decides(p, "retryFromDLQ") =>
            /\ Decided(p).threw => (Unchanged(Decided(p)) /\ Decided(p).ret = NullJob)
            /\ ~InDlq(call[p].id) =>
                 (Unchanged(Decided(p)) /\ Decided(p).ret = NullJob)
            /\ (InDlq(call[p].id) /\ ~Decided(p).threw) =>
                 /\ Revived(Decided(p).ret, call[p].id)
                 /\ Decided(p).dlq = splice(dlqFile, findIndex(dlqFile, call[p].id))
                 /\ findIndex(Decided(p).jobs, call[p].id) # 0
                 /\ Decided(p).jobs[findIndex(Decided(p).jobs, call[p].id)]
                      = toJSON(Decided(p).ret)]_vars

C15_Witness ==
  /\ harness = "dlq"
  /\ \E p \in Procs :
       /\ call[p].name = "retryFromDLQ" /\ pc[p] = "done"
       /\ Revived(plan[p].ret, call[p].id)
       /\ InMain(call[p].id) /\ ~InDlq(call[p].id)
       /\ nextId = 2

\* C16: a retryFromDLQ(id) that runs (the lock was obtained) while the main
\* collection holds a job with the same id overwrites that job with the
\* revived pending job (attempts 0) and removes the DLQ entry, in both
\* backends.
C16_CollisionOverwrites ==
  [][\A p \in Procs :
       (/\ Decides(p, "retryFromDLQ")
        /\ backend = "json" => pc'[p] = "locked"
        /\ InDlq(call[p].id) /\ InMain(call[p].id))
         => /\ ~Decided(p).threw
            /\ Revived(Decided(p).ret, call[p].id)
            /\ Len(Decided(p).jobs) = Len(jobsFile)
            /\ Decided(p).jobs[findIndex(jobsFile, call[p].id)] = toJSON(Decided(p).ret)
            /\ Decided(p).dlq = splice(dlqFile, findIndex(dlqFile, call[p].id))]_vars

\* The step is an updateJob call.
IsUpdateJob == nUpdate' # nUpdate

\* resetForRetry took the job from before to after.
ByReset(before, after) ==
  \E keep \in BOOLEAN :
    ~resetForRetry(before, keep, now).threw /\ after = resetForRetry(before, keep, now).job

\* Neither dequeue nor leaseNext returns a completed or a dead job.
TerminalNeverLeased ==
  /\ InQueue =>
       \A id \in DOMAIN jobs :
         jobs[id].state \in {"completed", "dead"} =>
           /\ \A at \in Times : DequeueAt(at) # id
           /\ IsUpdateJob \/ jobs'[id].state # "processing"
  /\ \A p \in Procs :
       (Decides(p, "leaseNext") /\ Decided(p).ret # NullJob) =>
         StoredState(jobsFile, Decided(p).ret.id) \in {"pending", "failed"}
  /\ Len(dlqFile') < Len(dlqFile) => \E p \in Procs : Decides(p, "retryFromDLQ")

\* A completed job keeps its state and a dead job leaves dead only by
\* resetForRetry, in every step but those of except.
TerminalStays(except) ==
  /\ InQueue =>
       \A id \in DOMAIN jobs :
         except \/
           /\ jobs[id].state = "completed" => jobs'[id].state = "completed"
           /\ jobs[id].state = "dead" =>
                (jobs'[id].state = "dead" \/ ByReset(jobs[id], jobs'[id]))
  /\ harness = "job" =>
       /\ jobObj.state = "completed" => jobObj'.state = "completed"
       /\ jobObj.state = "dead" => (jobObj'.state = "dead" \/ ByReset(jobObj, jobObj'))

StopResolves == harness = "worker" /\ stopping /\ ~stopping'

AllLoopsExited == \A l \in LoopIds : loopPc[l] = "none"

\* C18: stop() resolves only after every execution loop has exited, with the
\* execution in flight finalized: when it resolves no job leased by the
\* worker is still processing, and no loop dequeues afterwards.
C18_StopIsCooperative ==
  [][/\ StopResolves => (AllLoopsExited /\ byState["processing"] = {})
     /\ (harness = "worker" /\ ~running /\ ~stopping /\ ~running')
          => \A id \in JobIds : deqSince'[id] <= deqSince[id]]_vars

\* The step is the end of an execution of loop l that threw / returned, on a
\* job that is no longer processing (so that fail / complete throws).
EndsExecution(l, how) ==
  /\ hook' # NoHook /\ hook'.loop = l /\ hook'.exec = how
  /\ loopPc[l] = "executing"
  /\ loopJob[l] \in DOMAIN jobs
  /\ stateOf[loopJob[l]] # "processing"

\* The loop did not end: it is at an await of its next iteration, unless
\* stop() has cleared the running flag.
Proceeds(l) == running => loopPc'[l] \in {"sleeping", "executing"}

\* C19: when the executor throws and Queue.fail then throws because the job
\* is no longer processing, the loop does not terminate: the error of fail
\* and the execution error are both passed to the error hook and the loop
\* goes on to its next iteration.
C19_BothErrorsToHook ==
  [][\A l \in LoopIds :
       EndsExecution(l, "threw") =>
         /\ Len(hook'.calls) = 2
         /\ hook'.calls[1] = "fail() requires 'processing' state"
         /\ hook'.calls[2] \in Errors
         /\ hook'.job = loopJob[l]
         /\ Proceeds(l)]_vars

C19_Witness ==
  /\ harness = "worker"
  /\ hook.exec = "threw" /\ Len(hook.calls) = 2
  /\ running /\ loopPc[hook.loop] # "none"

\* C20: when Queue.complete throws after a successful execution, the job's
\* attempts is not incremented, the loop does not move it to failed or dead,
\* and the error of complete reaches the error hook.
C20_CompleteErrorIsNoFailure ==
  [][\A l \in LoopIds :
       EndsExecution(l, "returned") =>
         /\ jobs'[loopJob[l]].attempts = jobs[loopJob[l]].attempts
         /\ jobs'[loopJob[l]].last_error = jobs[loopJob[l]].last_error
         /\ jobs'[loopJob[l]].state \in {"failed", "dead"} =>
              jobs'[loopJob[l]].state = jobs[loopJob[l]].state
         /\ \E i \in 1..Len(hook'.calls) :
              hook'.calls[i] = "complete() requires 'processing' state"]_vars

C20_Witness ==
  /\ harness = "worker"
  /\ hook.exec = "returned" /\ Len(hook.calls) = 2
  /\ hook.job \in DOMAIN jobs /\ jobs[hook.job].attempts = 0

\* The queue after requeue(id), and whether the call threw.
Requeued(id) == requeue(Q, id, now)

\* The per-state sets hold id under st and under no other state.
IndexedAs(q, id, st) ==
  /\ q.stateOf[id] = st
  /\ \A x \in JobState : (id \in q.byState[x]) <=> (x = st)

\* C21: requeue(id) on a processing or failed job returns it to pending with
\* attempts unchanged and next_attempt_at cleared, and dequeue then considers
\* it at every query time its run_at allows; on a completed or dead job it
\* throws and changes nothing.
C21_RequeueToPending ==
  InQueue =>
    \A id \in DOMAIN jobs :
      /\ jobs[id].state \in {"processing", "failed"} =>
           /\ ~Requeued(id).threw
           /\ Requeued(id).q.jobs[id].state = "pending"
           /\ IndexedAs(Requeued(id).q, id, "pending")
           /\ Requeued(id).q.jobs[id].attempts = jobs[id].attempts
           /\ Requeued(id).q.jobs[id].next_attempt_at = Undef
           /\ \A at \in Times :
                (jobs[id].run_at = Undef \/ jobs[id].run_at <= at)
                  => id \in considered(Requeued(id).q, at, now)
      /\ jobs[id].state \in {"completed", "dead"} =>
           (Requeued(id).threw /\ Requeued(id).q = Q)

C21_Witness ==
  /\ harness = "queue"
  /\ nUpdate = 0
  /\ \E id \in DOMAIN jobs :
       /\ jobs[id].state = "pending" /\ stateOf[id] = "pending"
       /\ jobs[id].attempts >= 1 /\ jobs[id].last_error # NoError
       /\ jobs[id].next_attempt_at = Undef
       /\ id \in touched

\* The job hydrated from the serialized form of jobObj.
RoundTrip == fromJSON(toJSON(jobObj))

C23_DueAndRetryable ==
  harness = "job" =>
    /\ \A at \in 0..MaxTime :
         /\ isDue(jobObj, at) <=>
              \/ /\ jobObj.state = "pending"
                 /\ (jobObj.run_at = Undef \/ jobObj.run_at <= at)
              \/ /\ jobObj.state = "failed"
                 /\ jobObj.attempts < jobObj.max_retries
                 /\ (jobObj.next_attempt_at = Undef \/ jobObj.next_attempt_at <= at)
         /\ jobObj.state \in {"processing", "completed", "dead"} => ~isDue(jobObj, at)
    /\ isRetryable(jobObj) <=>
         /\ jobObj.attempts < jobObj.max_retries
         /\ jobObj.state \notin {"dead", "completed"}

\* A failed job that has used up its retries and whose retry time has come.
C23_Witness ==
  /\ harness = "job"
  /\ jobObj.state = "failed" /\ jobObj.attempts = jobObj.max_retries
  /\ jobObj.next_attempt_at # Undef /\ jobObj.next_attempt_at <= now
  /\ ~isDue(jobObj, now) /\ ~isRetryable(jobObj)

\* Jobs a caller can hand to enqueue: one the queue holds, in its present
\* state or pending again, and a new one in any state.
Offered ==
  {jobs[id] : id \in DOMAIN jobs}
    \cup {[jobs[id] EXCEPT !.state = "pending"] : id \in DOMAIN jobs}
    \cup {[create(insertSeq + 1, MaxRetries, MaxBase, ra, now) EXCEPT !.state = st] :
            ra \in RunAts, st \in JobState}

\* C24: Queue.enqueue(job) throws when a job with the same id is already in
\* the queue or when the job's state is not pending, leaving the queue
\* unchanged; otherwise it registers the job as pending with the next
\* insertion sequence number.
C24_EnqueueContract ==
  InQueue =>
    \A job \in Offered :
      LET r == enqueue(Q, job)
      IN IF job.id \in DOMAIN jobs \/ job.state # "pending"
         THEN r.threw /\ r.q = Q
         ELSE /\ ~r.threw
              /\ r.q.jobs[job.id] = job
              /\ IndexedAs(r.q, job.id, "pending")
              /\ r.q.insertSeq = insertSeq + 1
              /\ r.q.insertionOrder[job.id] = insertSeq + 1
              /\ \A id \in DOMAIN jobs :
                   /\ r.q.jobs[id] = jobs[id]
                   /\ r.q.stateOf[id] = stateOf[id]
                   /\ r.q.insertionOrder[id] = insertionOrder[id]
              /\ \A st \in JobState : r.q.byState[st] \ {job.id} = byState[st]

\* The second job was registered with sequence number 2 while the first,
\* no longer pending, is still held: offering the first again is refused.
C24_Witness ==
  /\ harness = "queue"
  /\ insertSeq = 2 /\ 2 \in DOMAIN jobs /\ insertionOrder[2] = 2
  /\ 1 \in DOMAIN jobs /\ jobs[1].state = "failed"
  /\ enqueue(Q, [jobs[1] EXCEPT !.state = "pending"]).threw

\* The ids a caller can name: those the queue holds and one it does not.
Named == DOMAIN jobs \cup {insertSeq + 1}

\* Every job but id is as it was, in the jobs map and in the indexes.
OthersKept(q, id) ==
  /\ DOMAIN q.jobs = DOMAIN jobs
  /\ \A x \in DOMAIN jobs \ {id} : q.jobs[x] = jobs[x] /\ q.stateOf[x] = stateOf[x]
  /\ \A st \in JobState : q.byState[st] \ {id} = byState[st] \ {id}
  /\ q.insertSeq = insertSeq /\ q.insertionOrder = insertionOrder

\* C25: Queue.complete(id) and Queue.fail(id, err) throw when the job is
\* unknown or its indexed state is not processing, leaving the job and all
\* indexes unchanged; from processing, complete moves the job to the
\* completed set and fail moves it to the dead set when the job became dead
\* and to the failed set otherwise.
C25_CompleteFailContract ==
  InQueue =>
    \A id \in Named : \A err \in Errors :
      LET c == complete(Q, id, now)
          f == fail(Q, id, err, now)
      IN IF id \notin DOMAIN jobs \/ stateOf[id] # "processing"
         THEN /\ c.threw /\ c.q = Q
              /\ f.threw /\ f.q = Q
         ELSE /\ ~c.threw
              /\ c.q.jobs[id].state = "completed"
              /\ IndexedAs(c.q, id, "completed")
              /\ OthersKept(c.q, id)
              /\ ~f.threw
              /\ f.q.jobs[id].state \in {"failed", "dead"}
              /\ f.q.jobs[id].state = "dead" <=> jobs[id].attempts + 1 > jobs[id].max_retries
              /\ IndexedAs(f.q, id, f.q.jobs[id].state)
              /\ OthersKept(f.q, id)

\* A job that failed once, was requeued and is processing again beside a
\* job that is not: failing it now makes it dead.
C25_Witness ==
  /\ harness = "queue"
  /\ \E id \in DOMAIN jobs :
       /\ stateOf[id] = "processing" /\ jobs[id].attempts = jobs[id].max_retries
       /\ IndexedAs(fail(Q, id, "boom", now).q, id, "dead")
  /\ \E id \in DOMAIN jobs : stateOf[id] # "processing" /\ complete(Q, id, now).threw

\* Jobs a caller can hold whose id the main collection does not have: a
\* job created and not enqueued, and the dead letters not enqueued again.
Strangers ==
  {create(nextId, Retries, MaxBase, Undef, now)}
    \cup {fromJSON(IF backend = "sqlite" THEN dlqFile[i].payload ELSE dlqFile[i]) :
            i \in {k \in 1..Len(dlqFile) : ~InMain(dlqFile[k].id)}}

\* update(job) run on the store as it is (for JsonStorage, under the lock).
Updated(job) ==
  IF backend = "sqlite" THEN sqliteUpdate(Docs, job) ELSE jsonUpdate(Docs, job)

\* C26: in both storage backends, update(job) for an id that is not in the
\* main collection is observable as an error and changes nothing; it is
\* never a silent no-op.
C26_UpdateOfMissingIdThrows ==
  harness \in {"store", "dlq"} =>
    \A job \in Strangers :
      /\ Updated(job).threw
      /\ Updated(job).jobs = jobsFile /\ Updated(job).dlq = dlqFile

\* How many entries of the DLQ document d carry the id.
Entries(d, id) == Cardinality({i \in 1..Len(d) : d[i].id = id})

\* C27: sweepDeadToDLQ is an idempotent catch-up: each job it moves is then
\* out of the main collection and in the DLQ exactly once; running it again,
\* or running two sweeps concurrently, creates no second DLQ entry for any
\* job.
C27_SweepIsIdempotent ==
  [][\A p \in Procs :
       (sweep[p].active /\ Decides(p, "moveToDLQ") /\ ~Decided(p).threw)
         => /\ findIndex(Decided(p).jobs, call[p].id) = 0
            /\ Entries(Decided(p).dlq, call[p].id) = 1]_vars

\* DLQManager.list(): what storage.listDLQ() can return.
ListDLQ == IF backend = "sqlite" THEN sqliteListDLQ(dlqFile) ELSE {jsonListDLQ(dlqFile)}

Ids(seq) == [i \in 1..Len(seq) |-> seq[i].id]

\* C28 (as stated): DLQManager.list() returns the DLQ snapshots in the order
\* in which their moveToDLQ calls completed, in both backends.
C28_ListInCompletionOrder ==
  harness = "order" => \A out \in ListDLQ : Ids(out) = Ids(dlqFile)

\* The dead_at of the entry of the SQL dlq table with this id, and the place
\* of the entry among the moves that completed.
DeadAt(id) == dlqFile[findIndex(dlqFile, id)].dead_at
Place(id) == findIndex(dlqFile, id)

\* C28 (amended): list() returns every DLQ entry once; with JsonStorage in
\* the order in which the moveToDLQ calls completed; with SqliteStorage in
\* non-decreasing time of death (dead_at), entries with different dead_at in
\* the order in which their moves completed.
C28_ListInTimeOfDeathOrder ==
  harness = "order" =>
    \A out \in ListDLQ :
      /\ Len(out) = Len(dlqFile)
      /\ {out[i].id : i \in 1..Len(out)} = {dlqFile[i].id : i \in 1..Len(dlqFile)}
      /\ backend = "json" => Ids(out) = Ids(dlqFile)
      /\ backend = "sqlite" =>
           \A i, j \in 1..Len(out) :
             i < j => /\ DeadAt(out[i].id) <= DeadAt(out[j].id)
                      /\ DeadAt(out[i].id) # DeadAt(out[j].id)
                           => Place(out[i].id) < Place(out[j].id)

\* Job 1 died, was revived and died again after job 2: the SQL table lists
\* job 2 first.
C28_Witness ==
  /\ harness = "order" /\ backend = "sqlite"
  /\ Len(dlqFile) = 2
  /\ dlqFile[1].id = 2 /\ dlqFile[2].id = 1
  /\ dlqFile[1].dead_at < dlqFile[2].dead_at
  /\ \A out \in ListDLQ : Ids(out) = <<2, 1>>

\* C29: the DLQ is keyed by job identity: it never holds two entries with the
\* same job id, and a retryFromDLQ(id) that revives a job leaves no entry
\* with that id.
C29_OneEntryPerId ==
  harness = "sweep" =>
    /\ \A i, j \in 1..Len(dlqFile) : dlqFile[i].id = dlqFile[j].id => i = j
    /\ \A p \in Procs :
         (call[p].name = "retryFromDLQ" /\ pc[p] = "locked" /\ plan[p].ret # NullJob)
           => findIndex(plan[p].dlq, call[p].id) = 0

\* The job snapshot a DLQ entry holds.
Snapshot(e) == IF backend = "sqlite" THEN e.payload ELSE e

\* C30: every entry in the DLQ is the snapshot of a dead job, with state
\* dead and no next_attempt_at, and a step that changes the DLQ adds one
\* entry at the end or removes one entry, the others staying as they were.
C30_DeadSnapshotsOnly ==
  [][harness = "sweep" =>
       /\ \A i \in 1..Len(dlqFile') :
            /\ Snapshot(dlqFile'[i]).state = "dead"
            /\ Snapshot(dlqFile'[i]).next_attempt_at = Undef
       /\ \/ dlqFile' = dlqFile
          \/ /\ Len(dlqFile') = Len(dlqFile) + 1
             /\ SubSeq(dlqFile', 1, Len(dlqFile)) = dlqFile
          \/ \E i \in 1..Len(dlqFile) : dlqFile' = splice(dlqFile, i)]_vars

\* A sweep has moved the dead job a caller had written back, and nothing
\* is left in the main collection.
C30_Witness ==
  /\ harness = "sweep"
  /\ \E p \in Procs : sweep[p].runs = 1 /\ ~sweep[p].active /\ pc[p] = "idle"
  /\ jobsFile = <<>>
  /\ Len(dlqFile) = 1
  /\ Snapshot(dlqFile[1]).state = "dead" /\ Snapshot(dlqFile[1]).last_error # NoError

\* The callers inside the critical section of withLock.
InCritical == {p \in Procs : pc[p] = "locked"}

\* C31: at any moment at most one JsonStorage operation is inside the
\* critical section, the lock file exists exactly while one is, and it is
\* that caller's own: once the operation has ended, by returning or by
\* throwing, the lock file is gone and a later operation can acquire it.
C31_LockDiscipline ==
  (harness = "dlq" /\ backend = "json") =>
    /\ Cardinality(InCritical) <= 1
    /\ \A p \in Procs : pc[p] = "locked" <=> lock = p
    /\ InCritical = {} => (lock = NoProc /\ \A p \in Procs : openExclusive(lock, p).ok)

\* One caller is inside with an operation that throws (update of a job
\* that is not there) while the other waits for the lock.
C31_Witness ==
  /\ harness = "dlq" /\ backend = "json"
  /\ \E p, q \in Procs :
       /\ p # q
       /\ pc[p] = "locked" /\ lock = p /\ plan[p].threw
       /\ pc[q] = "calling" /\ ~openExclusive(lock, q).ok

\* C32: a JsonStorage operation that cannot acquire the lock because
\* another holder keeps it fails with the lock-timeout error, has neither
\* read nor written the jobs and DLQ documents, and leaves the holder's
\* lock file in place; it does not enter while the lock file exists.
C32_LockTimeoutTouchesNothing ==
  [][\A p \in Procs :
       (harness = "store" /\ backend = "json" /\ pc[p] = "calling") =>
         /\ pc'[p] = "done" =>
              /\ lock \notin {NoProc, p}
              /\ lock' = lock
              /\ plan'[p] = Outcome(NullJob, TRUE)
              /\ jobsFile' = jobsFile /\ dlqFile' = dlqFile
         /\ pc'[p] = "locked" => lock = NoProc]_vars

\* The waiting caller has given up while the holder is still inside, its
\* writes not yet made.
C32_Witness ==
  /\ harness = "store" /\ backend = "json"
  /\ \E p, q \in Procs :
       /\ p # q
       /\ pc[p] = "done" /\ plan[p].threw /\ call[p].name = "leaseNext"
       /\ pc[q] = "locked" /\ lock = q /\ plan[q].wr # {}

\* What the SELECT can have given in the rounds of one transaction: any row
\* or none, a row that is no longer due included.
Picks == [1..LEASE_ROUNDS -> 0..Len(jobsFile)]

\* The row as the conditional UPDATE leaves it.
Flipped(row, at) == [row EXCEPT !.state = "processing", !.updated_at = at]

\* C33: SqliteStorage.leaseNext flips a selected row to processing only
\* through the conditional update, which succeeds iff the row satisfies the
\* due predicate at update time; when it affects no row the loop selects
\* again, and after 5 unsuccessful rounds it returns 'no job' without having
\* changed any row.
C33_ConditionalUpdate ==
  (harness = "lease" /\ backend = "sqlite") =>
    \A at \in Times :
      /\ \A idx \in 1..Len(jobsFile) :
           LET r == sqliteLeaseNext(Docs, idx, at)
           IN IF sqliteDue(jobsFile[idx], at)
              THEN /\ r.jobs = [jobsFile EXCEPT ![idx] = Flipped(@, at)]
                   /\ r.ret = fromJSON(Flipped(jobsFile[idx], at))
              ELSE r.jobs = jobsFile /\ r.ret = NullJob
      /\ \A picks \in Picks :
           LET r == sqliteLeaseTx(Docs, picks, at, 1)
               firstDue == {i \in 1..LEASE_ROUNDS :
                              /\ \A k \in 1..i : picks[k] # 0
                              /\ sqliteDue(jobsFile[picks[i]], at)
                              /\ \A k \in 1..(i - 1) : ~sqliteDue(jobsFile[picks[k]], at)}
           IN /\ ~r.threw /\ r.dlq = dlqFile
              /\ firstDue = {} => (r.ret = NullJob /\ r.jobs = jobsFile)
              /\ \A i \in firstDue : r = sqliteLeaseNext(Docs, picks[i], at)
      /\ \A i \in sqliteSelect(jobsFile, at) :
           sqliteLeaseTx(Docs, [k \in 1..LEASE_ROUNDS |-> i], at, 1)
             = sqliteLeaseNext(Docs, i, at)

\* One caller has leased a job, the other found none: the leased row is
\* processing, and five rounds on it change nothing.
C33_Witness ==
  /\ harness = "lease" /\ backend = "sqlite"
  /\ \E p, q \in Procs :
       /\ pc[p] = "done" /\ plan[p].ret # NullJob
       /\ pc[q] = "done" /\ plan[q].ret = NullJob
       /\ \E idx \in 1..Len(jobsFile) :
            /\ jobsFile[idx].id = plan[p].ret.id
            /\ jobsFile[idx].state = "processing"
            /\ sqliteLeaseTx(Docs, [k \in 1..LEASE_ROUNDS |-> idx], call[p].at, 1).ret = NullJob

\* C34: after any sequence of enqueue, dequeue, complete, fail, requeue,
\* resetForRetry and updateJob calls, throwing ones included, every job id of
\* the queue is in exactly one per-state set, the one the id-to-state map
\* names, which is the state of the stored Job; list(state) returns exactly
\* the jobs in that state.
C34_IndexConsistency ==
  harness = "queue" =>
    /\ DOMAIN stateOf = DOMAIN jobs
    /\ DOMAIN insertionOrder = DOMAIN jobs
    /\ \A st \in JobState : byState[st] \subseteq DOMAIN jobs
    /\ \A id \in DOMAIN jobs : jobs[id].id = id /\ IndexedAs(Q, id, jobs[id].state)
    /\ \A st \in JobState :
         queueList(Q, st) = {jobs[id] : id \in {x \in DOMAIN jobs : jobs[x].state = st}}

\* updateJob has put one job into another state while the other job,
\* having failed, waits: each is listed under its own state only.
C34_Witness ==
  /\ harness = "queue" /\ nUpdate = 1
  /\ \E a, b \in DOMAIN jobs :
       /\ a \in touched /\ jobs[a].state = "completed" /\ jobs[a].attempts = 1
       /\ jobs[b].state = "failed"
       /\ queueList(Q, "completed") = {jobs[a]} /\ queueList(Q, "failed") = {jobs[b]}

\* The execution loops of the Worker that have been started and have not
\* returned.
LiveLoops == {l \in LoopIds : loopPc[l] # "none"}

\* C35: the number of live execution loops of a Worker never exceeds its
\* configured concurrency, under every interleaving of start() and stop(),
\* start() during a pending stop() included.
C35_LiveLoopsWithinConcurrency ==
  harness = "restart" => Cardinality(LiveLoops) <= WorkerConcurrency

\* The storage calls that have resolved: the callers and the job each stored.
Enqueued == {p \in Procs : pc[p] = "done" /\ call[p].name = "enqueue" /\ ~plan[p].threw}

\* C36: JsonStorage.init() never removes or alters persisted jobs: however
\* init() in one process interleaves with init() and enqueue() in another on
\* the same directory, every successfully enqueued job is in the jobs
\* document afterwards.
C36_InitKeepsJobs ==
  harness = "init" =>
    \A p \in Enqueued :
       /\ findIndex(jobsFile, call[p].id) # 0
       /\ jobsFile[findIndex(jobsFile, call[p].id)] = toJSON(call[p].job)

\* The record new is the record old marked processing: only state and
\* updated_at may differ.
MarkedProcessing(old, new) ==
  /\ new.state = "processing"
  /\ new = [old EXCEPT !.state = "processing", !.updated_at = new.updated_at]

\* The stored records after are the records before with the record id marked
\* processing and every other record as it was.
OnlyLeased(before, after, id) ==
  /\ Len(after) = Len(before)
  /\ \A i \in 1..Len(before) :
       IF before[i].id = id THEN MarkedProcessing(before[i], after[i])
       ELSE after[i] = before[i]

\* What a leaseNext that decided r does to the store db.
LeaseFrame(db, r) ==
  /\ ~r.threw
  /\ r.dlq = db.dlq
  /\ IF r.ret = NullJob THEN r.jobs = db.jobs
     ELSE /\ findIndex(db.jobs, r.ret.id) # 0
          /\ OnlyLeased(db.jobs, r.jobs, r.ret.id)

\* C37: a successful Queue.dequeue or backend leaseNext changes only state
\* (to processing) and updated_at of the selected job: its other fields and
\* every field of every other job are unchanged; a call that returns no job
\* changes nothing in the queue or store.
C37_LeasingFrame ==
  /\ harness = "queue" =>
       \A at \in Times :
          \E d \in {dequeue(Q, at, now)} :
             IF d.ret = NoJob THEN d.q = Q
             ELSE /\ DOMAIN d.q.jobs = DOMAIN jobs
                  /\ MarkedProcessing(jobs[d.ret], d.q.jobs[d.ret])
                  /\ \A id \in DOMAIN jobs \ {d.ret} : d.q.jobs[id] = jobs[id]
                  /\ d.q.insertionOrder = insertionOrder
  /\ harness = "lease" =>
       \A p \in Procs :
          /\ (backend = "json" /\ pc[p] = "calling") =>
               \E b \in {jsonBody(call[p], Docs, now)} :
                  LeaseFrame(Docs, b) /\ b.wr = (IF b.ret = NullJob THEN {} ELSE {"jobs"})
          /\ (backend = "json" /\ pc[p] = "locked" /\ plan[p].wr # {}) =>
               LeaseFrame(Docs, plan[p]) /\ plan[p].wr = {"jobs"}
          /\ (backend = "sqlite" /\ pc[p] = "calling") =>
               \A r \in sqliteResults(call[p], Docs, now) : LeaseFrame(Docs, r)

\* A job scheduled for later has been dequeued some time after it was
\* enqueued: it is processing, stamped with the time of the dequeue, with its
\* run_at kept, next to a job that is still pending.
C37_Witness ==
  /\ harness = "queue"
  /\ \E id \in DOMAIN jobs :
       /\ jobs[id].state = "processing" /\ jobs[id].attempts = 0
       /\ jobs[id].run_at = 1 /\ jobs[id].updated_at > jobs[id].created_at
       /\ deqSince[id] = 1 /\ id \notin touched
  /\ \E id \in DOMAIN jobs : jobs[id].state = "pending"

\* The step in which the worker loop of p goes on after the storage.update or
\* storage.moveToDLQ call that hands its leased job back has settled.
HandsBack(p) ==
  /\ harness = "store"
  /\ pc[p] = "done"
  /\ call[p].name \in {"update", "moveToDLQ"}
  /\ pc'[p] # "done"

\* C38: in the storage-backed worker loop every leased job is persisted out
\* of processing before the loop leases another job or exits: after the
\* executor returned or threw, the job is stored as completed, as failed, or
\* in the DLQ, also when the storage update call fails, and such an error
\* does not terminate the loop. (The call that hands the job back has stored
\* it when it did not throw; the loop goes on when it is idle again.)
C38_LeasedJobIsHandedBack ==
  [][\A p \in Procs :
        HandsBack(p) =>
          /\ ~plan[p].threw
          /\ pc'[p] = "idle"]_vars

\* C39: bounded retries: a job for which resetForRetry was never called with
\* keepAttempts = true has attempts <= max_retries + 1 in every reachable
\* state, and between two resets of its attempts it is handed out for
\* execution at most max_retries + 1 times.
C39_BoundedRetries ==
  harness = "retry" =>
    \A id \in DOMAIN jobs :
       /\ jobs[id].attempts <= jobs[id].max_retries + 1
       /\ execs[id] <= jobs[id].max_retries + 1

====
